---- MODULE Spec2Model ----
(***************************************************************************)
(* Quiver-to-Obsidian: the export of a Quiver library (meta hierarchy,     *)
(* notebooks, notes, resources) to a tree of markdown files.               *)
(*                                                                         *)
(* Strings are sequences of one-character strings; a path is the sequence  *)
(* of its segments, which is what path.join leaves after normalisation.    *)
(***************************************************************************)
EXTENDS Integers, Sequences, FiniteSets, TLC

VARIABLES
    library,            \* this.library: [meta, notebooks], read once
    phase,              \* "plan", "write", "done", "failed"
    error,              \* message class of the thrown Error, "" when none
    walkPos,            \* next call of the planning walk
    orphanPos,          \* next notebook of the planning orphan pass
    notebooksInMeta,    \* the local Set of transformQvLibraryToObsidian
    newNotePathRecord,  \* this.newNotePathRecord: note uuid -> path
    planLog,            \* history: every planned (notebook, note, path), in order
    callbackLog,        \* history: the visits of the planning callback
    warnings,           \* history: console.warn of the walk, the skipped ids
    needReplaceExtNames,    \* this.needReplaceExtNames, {} when undefined
    noteCount,              \* this.noteCount
    barTicks,               \* calls of this.bar.tick()
    spinner,                \* TRUE while this.spinner is defined
    spinnerStops,           \* calls of this.spinner.stop()
    tasks,                  \* the writeNote calls in flight, in start order
    currentNoteResourceMap, \* this.currentNoteResourceMap
    brokenLinks,            \* this.brokenLinks
    files,                  \* output files: path -> what was written last
    dirs,                   \* output directories
    copyLog,                \* history: the set of fse.copyFile calls completed
    rewriteLog,             \* history: the rewritten cells, each with the map it read
    reported,               \* what reportBrokenLinks printed, <<"none">> before
    resolveIn,              \* arguments of a call of newDistinctNoteName
    resolveOut,             \* what the call returned, [called |-> FALSE] before
    nameIn,                 \* arguments of a call of replaceResourceName(_, true)
    nameOut,                \* what the call returned, and a call on its result
    finalIn,                \* a text and a resource map given to the final-name step
    finalOut,               \* the text the step returned
    contentIn,              \* references of one cell text given to replaceResourceName
    contentOut,             \* the text replaceResourceName(_, false) returned
    notebookDir,            \* the notes of a notebook directory, in readdir order
    reading,                \* readNoteBook: the reads pending, the notes pushed
    outputState,            \* what outputPath is on disk when the CLI starts
    exitCode                \* the argument of process.exit, -1 while running

planVars == <<library, phase, error, walkPos, orphanPos, notebooksInMeta,
              newNotePathRecord, planLog, callbackLog, warnings>>

writeVars == <<needReplaceExtNames, noteCount, barTicks, spinner, spinnerStops,
               tasks, currentNoteResourceMap, brokenLinks, files, dirs, copyLog,
               rewriteLog, reported>>

fnVars == <<resolveIn, resolveOut, nameIn, nameOut, finalIn, finalOut, contentIn,
           contentOut, notebookDir, reading>>

cliVars == <<outputState, exitCode>>

vars == <<planVars, writeVars, fnVars, cliVars>>

-----------------------------------------------------------------------------
(* Bounds of the model *)

\* notes of the notebook whose titles are enumerated
MaxNotes == 3

-----------------------------------------------------------------------------
(* Strings *)

Range(s) == {s[i] : i \in 1..Len(s)}

IsSpace(c) == c \in {" ", "\n"}

RECURSIVE TrimStart(_)
TrimStart(s) ==
    IF s # <<>> /\ IsSpace(Head(s)) THEN TrimStart(Tail(s)) ELSE s

RECURSIVE TrimEnd(_)
TrimEnd(s) ==
    IF s # <<>> /\ IsSpace(s[Len(s)]) THEN TrimEnd(SubSeq(s, 1, Len(s) - 1)) ELSE s

\* String.prototype.trim
Trim(s) == TrimEnd(TrimStart(s))

\* String.prototype.split(sep) for a one-character separator: never empty
RECURSIVE Split(_, _)
Split(s, sep) ==
    IF \A i \in 1..Len(s) : s[i] # sep
    THEN <<s>>
    ELSE LET k == CHOOSE i \in 1..Len(s) :
                    s[i] = sep /\ \A j \in 1..(i - 1) : s[j] # sep
         IN  <<SubSeq(s, 1, k - 1)>> \o Split(SubSeq(s, k + 1, Len(s)), sep)

\* Array.prototype.join(sep)
RECURSIVE Join(_, _)
Join(parts, sep) ==
    IF parts = <<>> THEN <<>>
    ELSE IF Len(parts) = 1 THEN parts[1]
    ELSE parts[1] \o <<sep>> \o Join(Tail(parts), sep)

\* String.prototype.replace(/c/g, d) for one character
ReplaceAll(s, c, d) == [i \in 1..Len(s) |-> IF s[i] = c THEN d ELSE s[i]]

DigitChars == <<"0", "1", "2", "3", "4", "5", "6", "7", "8", "9">>

\* the decimal form of a natural number, as template literals print it
RECURSIVE IntToStr(_)
IntToStr(n) ==
    IF n < 10 THEN <<DigitChars[n + 1]>>
    ELSE IntToStr(n \div 10) \o <<DigitChars[(n % 10) + 1]>>

\* Array.prototype.indexOf(x) > -1
\* a membership test that looks at the last element alone
IncludesLast(list, x) == list # <<>> /\ list[Len(list)] = x
Includes(list, x) == \E i \in 1..Len(list) : list[i] = x

RECURSIVE SelectNonEmpty(_)
SelectNonEmpty(parts) ==
    IF parts = <<>> THEN <<>>
    ELSE IF Head(parts) = <<>> THEN SelectNonEmpty(Tail(parts))
    ELSE <<Head(parts)>> \o SelectNonEmpty(Tail(parts))

\* path.join(base, name): the segments of name follow those of base; empty
\* segments vanish in path.join's normalisation
PathJoin(base, name) == base \o SelectNonEmpty(Split(name, "/"))

\* path.basename(p) and path.dirname(p)
\* path.basename(p, '.md'): the extension dropped
BasenameNoExt(p) == SubSeq(p[Len(p)], 1, Len(p[Len(p)]) - 3)
Basename(p) == p[Len(p)]
Dirname(p) == SubSeq(p, 1, Len(p) - 1)

MdExt == <<".", "m", "d">>

-----------------------------------------------------------------------------
(* utils.ts *)

MAX_RENAME_COUNT == 100

\* the first name tried, returned without a look at currentNames
newDistinctNoteNameFirstTry(noteName, currentNames, index) ==
    [threw |-> index > MAX_RENAME_COUNT,
     value |-> IF index > MAX_RENAME_COUNT THEN noteName
               ELSE noteName \o <<" ">> \o IntToStr(index)]

\* newDistinctNoteName: [threw, value]; threw stands for the Error thrown.
\* The function calls itself with index + 1 as long as the name it built is
\* in currentNames: calls holds the indices of the calls that build a name,
\* one after the other from index on, each made because the names of all
\* the calls before it are taken. The last of them returns its name, or, its
\* name taken too, makes the call with MAX_RENAME_COUNT + 1, which throws.
newDistinctNoteName(noteName, currentNames, index) ==
    LET newName(i) == noteName \o <<" ">> \o IntToStr(i)
        taken == {i \in index..MAX_RENAME_COUNT : Includes(currentNames, newName(i))}
        calls == {i \in index..MAX_RENAME_COUNT : \A j \in index..(i - 1) : j \in taken}
        last  == CHOOSE i \in calls : \A j \in calls : j <= i
    IN  IF index > MAX_RENAME_COUNT
        THEN [threw |-> TRUE, value |-> noteName]
        ELSE IF last \in taken
        THEN [threw |-> TRUE, value |-> noteName]
        ELSE [threw |-> FALSE, value |-> newName(last)]

-----------------------------------------------------------------------------
(* quiver_parse.ts: the recursive walk of the meta tree *)

\* The arrays of the walk are objects: heap[r] is the content of the array
\* with reference r, and a run of the walk is [heap, calls], each call
\* [uuid, ref, parents]: the array handed to the callback and what it held
\* at the moment of the call.
EmptyRun == [heap |-> << <<>> >>, calls |-> <<>>]

\* the walk with one array for the whole descent, pushed before the children
\* and popped after them
RECURSIVE WalkCallsSharedArray(_, _, _)
RECURSIVE WalkChildrenSharedArray(_, _, _)
WalkCallsSharedArray(libraryMeta, parents, run) ==
    LET called == [run EXCEPT !.calls = Append(@, [uuid |-> libraryMeta.uuid,
                                                   ref |-> parents,
                                                   parents |-> run.heap[parents]])]
    IN  IF Len(libraryMeta.children) > 0
        THEN LET pushed == [called EXCEPT !.heap[parents] = Append(@, libraryMeta.uuid)]
                 walked == WalkChildrenSharedArray(libraryMeta.children, parents, pushed)
             IN  [walked EXCEPT !.heap[parents] = SubSeq(@, 1, Len(@) - 1)]
        ELSE called
WalkChildrenSharedArray(children, p, run) ==
    IF children = <<>> THEN run
    ELSE WalkChildrenSharedArray(Tail(children), p,
                                 WalkCallsSharedArray(Head(children), p, run))

\* walkThroughNotebookHierarchty(libraryMeta, parents, callback): callback is
\* called with the array parents, then a new array p = [...parents, uuid] is
\* made and each child is walked with it
RECURSIVE WalkCalls(_, _, _)
RECURSIVE WalkChildren(_, _, _)
WalkCalls(libraryMeta, parents, run) ==
    LET called == [run EXCEPT !.calls = Append(@, [uuid |-> libraryMeta.uuid,
                                                   ref |-> parents,
                                                   parents |-> run.heap[parents]])]
    IN  IF Len(libraryMeta.children) > 0
        THEN LET copied == [called EXCEPT !.heap =
                                Append(@, called.heap[parents] \o <<libraryMeta.uuid>>)]
             IN  WalkChildren(libraryMeta.children, Len(copied.heap), copied)
        ELSE called
WalkChildren(children, p, run) ==
    IF children = <<>> THEN run
    ELSE WalkChildren(Tail(children), p, WalkCalls(Head(children), p, run))

-----------------------------------------------------------------------------
(* index.ts: class Quiver *)

\* the output root <outputPath>/quiver
outputQuiverPath == << <<"q", "u", "i", "v", "e", "r">> >>

normalizePath(pathName) ==
    LET parts == Split(pathName, "/")
    IN  Join([i \in 1..Len(parts) |-> Trim(parts[i])], "/")

sanitizeNoteTitle(title) == ReplaceAll(Trim(title), "/", "-")

\* findInMeta of notebookHasChildren: "null", "true" or "false"
RECURSIVE findInMeta(_, _)
RECURSIVE findInChildren(_, _)
findInMeta(meta, uuid) ==
    IF meta.uuid = uuid
    THEN (IF Len(meta.children) > 0 THEN "true" ELSE "false")
    ELSE IF Len(meta.children) > 0
    THEN findInChildren(meta.children, uuid)
    ELSE "null"
findInChildren(children, uuid) ==
    IF children = <<>> THEN "null"
    ELSE LET result == findInMeta(Head(children), uuid)
         IN  IF result # "null" THEN result
             ELSE findInChildren(Tail(children), uuid)

notebookHasChildren(lib, uuid) == findInMeta(lib.meta, uuid) = "true"

\* the record `notebooks` of Quiver.walkThroughNotebookHierarchty: the last
\* notebook of library.notebooks with the uuid, 0 when there is none
NotebookIndex(lib, uuid) ==
    LET hits == {i \in 1..Len(lib.notebooks) : lib.notebooks[i].uuid = uuid}
    IN  IF hits = {} THEN 0 ELSE CHOOSE i \in hits : \A j \in hits : j <= i

\* the walks the wrapper starts: one per child of the meta root, all with
\* its array `parents`, the reference 1 of the empty run
MetaWalk(lib) == WalkChildren(lib.meta.children, 1, EmptyRun)

\* the calls the wrapper receives, each [uuid, parents]
MetaCalls(lib) ==
    LET calls == MetaWalk(lib).calls
    IN  [k \in 1..Len(calls) |-> [uuid |-> calls[k].uuid, parents |-> calls[k].parents]]

\* the wrapper without its validation of the parents
WalkOutcomeOwnOnly(lib, call) ==
    IF NotebookIndex(lib, call.uuid) = 0 THEN "missing" ELSE "visit"

\* the wrapper of Quiver.walkThroughNotebookHierarchty on one call:
\* "missing" (notebook not on disk), "parent" (a parent not on disk), "visit"
WalkOutcome(lib, call) ==
    IF NotebookIndex(lib, call.uuid) = 0 THEN "missing"
    ELSE IF \E i \in 1..Len(call.parents) : NotebookIndex(lib, call.parents[i]) = 0
    THEN "parent"
    ELSE "visit"

\* the id the warning of the wrapper names
WarnedId(lib, call) ==
    IF NotebookIndex(lib, call.uuid) = 0 THEN call.uuid
    ELSE LET bad == {i \in 1..Len(call.parents) :
                        NotebookIndex(lib, call.parents[i]) = 0}
         IN  call.parents[CHOOSE i \in bad : \A j \in bad : i <= j]

\* the parents that hold notes alone give a segment
RECURSIVE JoinParentsWithNotes(_, _, _)
JoinParentsWithNotes(lib, base, parents) ==
    IF parents = <<>> THEN base
    ELSE LET parentNotebook == lib.notebooks[NotebookIndex(lib, Head(parents))]
         IN  JoinParentsWithNotes(lib,
                 IF Len(parentNotebook.notes) > 0
                 THEN PathJoin(base, normalizePath(parentNotebook.name))
                 ELSE base,
                 Tail(parents))

\* newPath of a walked notebook: root, every parent's name, its own name
RECURSIVE JoinParents(_, _, _)
JoinParents(lib, base, parents) ==
    IF parents = <<>> THEN base
    ELSE JoinParents(lib,
             PathJoin(base, normalizePath(lib.notebooks[NotebookIndex(lib, Head(parents))].name)),
             Tail(parents))

WalkedPath(lib, call) ==
    PathJoin(JoinParents(lib, outputQuiverPath, call.parents),
             normalizePath(lib.notebooks[NotebookIndex(lib, call.uuid)].name))

OrphanPath(notebook) == PathJoin(outputQuiverPath, normalizePath(notebook.name))

\* the notes.forEach of the planner from note i on: [threw, error, record,
\* names, log]; record keeps what was inserted before a throw
RECURSIVE PlanNotes(_, _, _, _, _, _)
PlanNotes(nbIdx, notes, i, newPath, st, record) ==
    IF i > Len(notes) THEN [threw |-> FALSE, error |-> "", record |-> record,
                            names |-> st.names, log |-> st.log]
    ELSE LET note == notes[i]
         IN  IF note.uuid \in DOMAIN record
             THEN [threw |-> TRUE, error |-> "duplicate", record |-> record,
                   names |-> st.names, log |-> st.log]
             ELSE LET title == sanitizeNoteTitle(note.title)
                      renamed == IF Includes(st.names, title)
                                 THEN newDistinctNoteName(title, st.names, 2)
                                 ELSE [threw |-> FALSE, value |-> title]
                  IN  IF renamed.threw
                      THEN [threw |-> TRUE, error |-> "rename", record |-> record,
                            names |-> st.names, log |-> st.log]
                      ELSE LET p == newPath \o <<renamed.value \o MdExt>>
                           IN  PlanNotes(nbIdx, notes, i + 1, newPath,
                                   [names |-> Append(st.names, renamed.value),
                                    log |-> Append(st.log,
                                        [nb |-> nbIdx, note |-> i, uuid |-> note.uuid,
                                         title |-> title, name |-> renamed.value,
                                         path |-> p])],
                                   (note.uuid :> p) @@ record)

\* the uuid of a note looked up among the notes of its own notebook alone
PlanNotebookOwnIds(nbIdx, notebook, newPath, record) ==
    LET r == PlanNotes(nbIdx, notebook.notes, 1, newPath,
                       [names |-> <<>>, log |-> <<>>], <<>>)
    IN  [r EXCEPT !.record = r.record @@ record]

PlanNotebook(nbIdx, notebook, newPath, record) ==
    PlanNotes(nbIdx, notebook.notes, 1, newPath, [names |-> <<>>, log |-> <<>>], record)

-----------------------------------------------------------------------------
(* index.ts: resource names and the rewriting of a cell                     *)
(*                                                                          *)
(* A cell text and a resource name are sequences of tokens: one-character   *)
(* strings, and the lexemes below taken whole: a link prefix, an extension  *)
(* with its dot, a block of 32 characters of [0-9A-Z], a note UUID.         *)

ResTag  == "_resources/"
ImgUrl  == "quiver-image-url/"
FileUrl == "quiver-file-url/"
NoteUrl == "quiver-note-url/"
NotesUrl == "quiver:///notes/"
Hex32   == "H32"
PngExt  == ".png"
\* the three-backquote fence put around a code cell
CodeFence == "fence"

\* tokens that are a dot followed by letters or digits
ExtTokens == {".png", ".PNG", ".jpg", ".awebp", ".AWEBP", ".txt"}

\* the lower-case form of an extension token (the regexes carry the i flag)
LowerExt(t) == IF t = ".PNG" THEN ".png" ELSE IF t = ".AWEBP" THEN ".awebp" ELSE t

\* the extensions of clearSuffixReg that the tokens can spell
KnownImageExts == {".png", ".jpg", ".awebp"}

\* tokens standing for a canonical upper-case note UUID
UuidTokens == {"n1", "n2", "n3", "n4", "n9"}

NoNewline(text, a, b) == \A x \in a..b : text[x] # "\n"

Least(S) == CHOOSE x \in S : \A y \in S : x <= y
Greatest(S) == CHOOSE x \in S : \A y \in S : y <= x

NoMatch == [end |-> 0, out |-> <<>>, miss |-> <<>>]

\* clearSuffixReg, content mode, tried at position i
MatchClear(text, i) ==
    IF ~(i + 1 <= Len(text) /\ text[i] = "(" /\ text[i + 1] = ResTag) THEN NoMatch
    ELSE LET ends(k) == {e \in (k + 2)..Len(text) :
                            text[e] = ")" /\ NoNewline(text, k + 2, e - 1)}
             ks == {k \in (i + 2)..(Len(text) - 2) :
                       /\ LowerExt(text[k]) \in KnownImageExts
                       /\ NoNewline(text, i + 2, k - 1)
                       /\ (IsSpace(text[k + 1]) \/ text[k + 1] \in {"&", "?"})
                       /\ ends(k) # {}}
         IN  IF ks = {} THEN NoMatch
             ELSE [end |-> Greatest(ends(Least(ks))),
                   out |-> <<"(">> \o SubSeq(text, i + 1, Least(ks)) \o <<")">>,
                   miss |-> <<>>]

\* renameAwebpReg, content mode, tried at position i
MatchRename(text, i, exts) ==
    IF ~(i + 1 <= Len(text) /\ text[i] = "(" /\ text[i + 1] = ResTag) THEN NoMatch
    ELSE LET ks == {k \in (i + 2)..(Len(text) - 1) :
                       /\ LowerExt(text[k]) \in exts
                       /\ NoNewline(text, i + 2, k - 1)
                       /\ text[k + 1] = ")"}
         IN  IF ks = {} THEN NoMatch
             ELSE [end |-> Least(ks) + 1,
                   out |-> <<"(">> \o SubSeq(text, i + 1, Least(ks) - 1)
                           \o <<PngExt, ")">>,
                   miss |-> <<>>]

\* addDefaultExtReg, content mode, tried at position i
MatchDefault(text, i) ==
    IF i + 3 <= Len(text) /\ text[i] = "(" /\ text[i + 1] = ResTag
       /\ text[i + 2] = Hex32 /\ text[i + 3] = ")"
    THEN [end |-> i + 3, out |-> <<"(", ResTag, Hex32, PngExt, ")">>, miss |-> <<>>]
    ELSE NoMatch

\* characters the base name of the final-name regex may not hold, and the
\* terminators (the third group) it stops at
BaseExcluded == {")", " ", "\n", "?", "#"}
Terminators == {")", "\\", " ", "\n", "?", "#"}

\* a callback that returns the bare tag when the map has no entry
MatchFinalBlanking(text, i, map) ==
    IF ~(i + 1 <= Len(text) /\ text[i] = ResTag /\ text[i + 1] \notin BaseExcluded)
    THEN NoMatch
    ELSE LET stops == {j \in (i + 2)..Len(text) : text[j] \in Terminators}
             j == IF stops = {} THEN Len(text) + 1 ELSE Least(stops)
             originalFileName == SubSeq(text, i + 1, j - 1)
             suffix == IF j <= Len(text) THEN <<text[j]>> ELSE <<>>
             withPng == originalFileName \o <<PngExt>>
         IN  [end |-> IF j <= Len(text) THEN j ELSE Len(text),
              out |-> IF originalFileName \in DOMAIN map
                      THEN <<ResTag>> \o map[originalFileName] \o suffix
                      ELSE IF withPng \in DOMAIN map
                      THEN <<ResTag>> \o map[withPng] \o suffix
                      ELSE <<ResTag>> \o suffix,
              miss |-> <<>>]

\* the regex of the final-name lookup, tried at position i, and its callback
MatchFinal(text, i, map) ==
    IF ~(i + 1 <= Len(text) /\ text[i] = ResTag /\ text[i + 1] \notin BaseExcluded)
    THEN NoMatch
    ELSE LET stops == {j \in (i + 2)..Len(text) : text[j] \in Terminators}
             j == IF stops = {} THEN Len(text) + 1 ELSE Least(stops)
             originalFileName == SubSeq(text, i + 1, j - 1)
             suffix == IF j <= Len(text) THEN <<text[j]>> ELSE <<>>
             withPng == originalFileName \o <<PngExt>>
         IN  [end |-> IF j <= Len(text) THEN j ELSE Len(text),
              out |-> IF originalFileName \in DOMAIN map
                      THEN <<ResTag>> \o map[originalFileName] \o suffix
                      ELSE IF withPng \in DOMAIN map
                      THEN <<ResTag>> \o map[withPng] \o suffix
                      ELSE SubSeq(text, i, j - 1) \o suffix,
              miss |-> <<>>]

\* the note-link regex, tried at position i, and its callback; miss holds
\* the target of a link that newNotePathRecord does not resolve
MatchLink(text, i, record) ==
    IF ~(i <= Len(text) /\ text[i] = "[") THEN NoMatch
    ELSE LET ks == {k \in (i + 1)..(Len(text) - 4) :
                       /\ text[k] = "]"
                       /\ NoNewline(text, i + 1, k - 1)
                       /\ text[k + 1] = "("
                       /\ text[k + 2] \in {NoteUrl, NotesUrl}
                       /\ text[k + 3] \in UuidTokens
                       /\ text[k + 4] = ")"}
         IN  IF ks = {} THEN NoMatch
             ELSE LET uuid == text[Least(ks) + 3]
                  IN  IF uuid \notin DOMAIN record
                      THEN [end |-> Least(ks) + 4,
                            out |-> <<" ", "[[", uuid, "]]">>,
                            miss |-> <<uuid>>]
                      ELSE [end |-> Least(ks) + 4,
                            out |-> <<" ", "[[">> \o Basename(record[uuid]) \o <<"]]">>,
                            miss |-> <<>>]

MatchAt(kind, text, i, ctx) ==
    CASE kind = "clear"   -> MatchClear(text, i)
      [] kind = "rename"  -> MatchRename(text, i, ctx.exts)
      [] kind = "default" -> MatchDefault(text, i)
      [] kind = "final"   -> MatchFinal(text, i, ctx.map)
      [] kind = "link"    -> MatchLink(text, i, ctx.record)

\* the first position from i on where the regex matches, 0 if there is none
NextMatch(kind, text, i, ctx) ==
    LET starts == {j \in i..Len(text) : MatchAt(kind, text, j, ctx).end # 0}
    IN  IF starts = {} THEN 0 ELSE Least(starts)

\* the text kept before a match, the replacement of the match, and what the
\* replace makes of the text behind the match
Spliced(kept, m, rest) ==
    [out |-> kept \o m.out \o rest.out, miss |-> m.miss \o rest.miss]

\* String.prototype.replace with a g regex: leftmost matches, left to right,
\* none overlapping; [out, miss]. From position i on, the text up to the
\* first match (at j, 0 for none) is kept, the match is replaced, and the
\* search goes on behind the match.
RECURSIVE GlobalReplace(_, _, _, _)
RECURSIVE ReplaceFrom(_, _, _, _, _)
ReplaceFrom(kind, text, i, ctx, j) ==
    IF j = 0 THEN [out |-> SubSeq(text, i, Len(text)), miss |-> <<>>]
    ELSE Spliced(SubSeq(text, i, j - 1), MatchAt(kind, text, j, ctx),
                 GlobalReplace(kind, text, MatchAt(kind, text, j, ctx).end + 1, ctx))

GlobalReplace(kind, text, i, ctx) ==
    ReplaceFrom(kind, text, i, ctx, NextMatch(kind, text, i, ctx))

\* addDefaultExtReg of a file name without its anchor at the end
ReplaceFileNameUnanchored(data, exts) ==
    IF data # <<>> /\ data[1] = Hex32
    THEN <<Hex32, PngExt>> \o Tail(data)
    ELSE data

\* replaceResourceName(data, true): a file name
ReplaceFileName(data, exts) ==
    LET n1 == Len(data)
        ks == {k \in 1..(n1 - 1) :
                  /\ LowerExt(data[k]) \in KnownImageExts
                  /\ (IsSpace(data[k + 1]) \/ data[k + 1] \in {"&", "?"})
                  /\ NoNewline(data, 1, n1)}
        d1 == IF ks = {} THEN data ELSE SubSeq(data, 1, Least(ks))
        d2 == IF exts # {} /\ d1 # <<>> /\ LowerExt(d1[Len(d1)]) \in exts
                 /\ NoNewline(d1, 1, Len(d1))
              THEN SubSeq(d1, 1, Len(d1) - 1) \o <<PngExt>>
              ELSE d1
    IN  IF d2 = <<Hex32>> THEN <<Hex32, PngExt>> ELSE d2

\* replaceResourceName(data, false): the text of a cell
ReplaceContent(data, exts) ==
    LET ctx == [exts |-> exts, map |-> <<>>, record |-> <<>>]
        d1 == GlobalReplace("clear", data, 1, ctx).out
        d2 == IF exts # {} THEN GlobalReplace("rename", d1, 1, ctx).out ELSE d1
    IN  GlobalReplace("default", d2, 1, ctx).out

replaceResourceName(data, isForFile, exts) ==
    IF isForFile THEN ReplaceFileName(data, exts) ELSE ReplaceContent(data, exts)

\* a list without the repetitions of its elements
RECURSIVE Distinct(_)
Distinct(list) ==
    IF list = <<>> THEN <<>>
    ELSE LET front == Distinct(SubSeq(list, 1, Len(list) - 1))
             last == list[Len(list)]
         IN  IF \E i \in 1..Len(front) : front[i] = last THEN front
             ELSE Append(front, last)

\* an unresolved target recorded once per cell, however often it is linked
transformRecordingTargetsOnce(data, exts, map, record) ==
    LET ctx == [exts |-> exts, map |-> map, record |-> record]
        d1 == [i \in 1..Len(data) |->
                  IF data[i] \in {ImgUrl, FileUrl} THEN ResTag ELSE data[i]]
        d2 == replaceResourceName(d1, FALSE, exts)
        d3 == GlobalReplace("final", d2, 1, ctx).out
        r == GlobalReplace("link", d3, 1, ctx)
    IN  [out |-> r.out, miss |-> Distinct(r.miss)]

\* transformQuiverResourceAndNoteLink: [out, miss], miss the targets of the
\* links pushed to brokenLinks, in order
transformQuiverResourceAndNoteLink(data, exts, map, record) ==
    LET ctx == [exts |-> exts, map |-> map, record |-> record]
        d1 == [i \in 1..Len(data) |->
                  IF data[i] \in {ImgUrl, FileUrl} THEN ResTag ELSE data[i]]
        d2 == replaceResourceName(d1, FALSE, exts)
        d3 == GlobalReplace("final", d2, 1, ctx).out
    IN  GlobalReplace("link", d3, 1, ctx)

\* path.extname and path.basename(name, ext) of a file name
ExtName(fileName) ==
    IF Len(fileName) > 1 /\ fileName[Len(fileName)] \in ExtTokens
    THEN <<fileName[Len(fileName)]>> ELSE <<>>

\* the renaming of copyResource after a collision
CollisionName(fileName, counter) ==
    LET ext == ExtName(fileName)
        base == SubSeq(fileName, 1, Len(fileName) - Len(ext))
    IN  base \o <<"_">> \o IntToStr(counter) \o ext

-----------------------------------------------------------------------------
(* The libraries the export is run on *)

Node(uuid, children) == [uuid |-> uuid, children |-> children]

MkNote(uuid, title, hasResources, resourceFiles, cells) ==
    [uuid |-> uuid, title |-> title, hasResources |-> hasResources,
     files |-> resourceFiles, cells |-> cells]

MkNotebook(uuid, name, notes) == [uuid |-> uuid, name |-> name, notes |-> notes]

\* ids the meta file may declare; "X" has no notebook on disk
MetaIds == {"A", "B", "C", "X"}

\* the declared trees: a chain, a fork, a child beside a leaf, three leaves
MetaTrees ==
    UNION { { Node("R", << Node(a, << Node(b, << Node(c, <<>>) >>) >>) >>),
              Node("R", << Node(a, << Node(b, <<>>), Node(c, <<>>) >>) >>),
              Node("R", << Node(a, << Node(b, <<>>) >>), Node(c, <<>>) >>),
              Node("R", << Node(a, <<>>), Node(b, <<>>), Node(c, <<>>) >>) }
            : a \in MetaIds, b \in MetaIds, c \in MetaIds }

\* resource names and cell texts
APng   == <<"a", PngExt>>
AAwebp == <<"a", ".awebp">>
HexName == <<Hex32>>

ImageRef(name) == <<"!", "[", "]", "(", ImgUrl>> \o name \o <<")">>
NoteRef(label, prefix, uuid) == <<"[", label, "]", "(", prefix, uuid, ")">>
Markdown(data) == [type |-> "markdown", data |-> data]
Code(data) == [type |-> "code", data |-> data]

\* a note with one resource and one cell that links to notes n1, n2 and to
\* a note that is nowhere
InboxNote(uuid) ==
    MkNote(uuid, <<"N">>, TRUE, <<APng>>,
           << Code(<<"x">>),
              Markdown(ImageRef(APng) \o <<" ">> \o NoteRef("x", NoteUrl, "n1")
                       \o <<"\n">> \o NoteRef("y", NotesUrl, "n2")
                       \o <<" ">> \o NoteRef("z", NoteUrl, "n9")) >>)

\* libraries that vary the declared hierarchy over three notebooks on disk,
\* two of them with the same display name, one or two of them without notes
HierLibraries ==
    { [meta |-> m,
       notebooks |-> <<
           MkNotebook("A", <<"p">>, << InboxNote("n1") >>),
           MkNotebook("B", <<"q", " ">>, <<>>),
           MkNotebook("C", <<"p">>, ns) >>]
      : m \in MetaTrees,
        ns \in { << MkNote("n2", <<"N">>, FALSE, <<>>, <<>>) >>,
                 << MkNote("n2", <<"M">>, FALSE, <<>>, <<>>) >>,
                 <<>> } }

\* note titles: two that sanitize to the same name, one that is the first
\* renaming of it, one with a path separator
Titles == { <<"N">>, <<" ", "N">>, <<"N", " ", "2">>, <<"N", "/", "2">> }

NoteIds == <<"n1", "n2", "n3", "n4", "n5", "n6", "n7", "n8">>

TitleSeqs == UNION { [1..n -> Titles] : n \in 1..MaxNotes }

\* libraries that vary the titles of the notes of one walked notebook, next
\* to an empty orphan notebook
TitleLibraries ==
    { [meta |-> Node("R", << Node("A", <<>>) >>),
       notebooks |-> <<
           MkNotebook("I", <<"i">>, <<>>),
           MkNotebook("A", <<"p">>,
               [k \in 1..Len(ts) |-> MkNote(NoteIds[k], ts[k], FALSE, <<>>, <<>>)]) >>]
      : ts \in TitleSeqs }

\* libraries in which two notes may carry the same uuid: two walked
\* notebooks (one with two notes) and two orphan notebooks
IdChoices ==
    { ids \in [1..5 -> {"n1", "n2", "n3", "n4", "n5"}] :
         /\ ids[1] = "n1"
         /\ Cardinality({ids[k] : k \in 1..5}) >= 4
         /\ \A k \in 2..5 : ids[k] \in {NoteIds[k]} \cup {ids[j] : j \in 1..(k - 1)} }

IdLibraries ==
    { [meta |-> Node("R", << Node("A", <<>>), Node("B", <<>>) >>),
       notebooks |-> <<
           MkNotebook("C", <<"r">>, << MkNote(ids[4], <<"N">>, FALSE, <<>>, <<>>) >>),
           MkNotebook("A", <<"p">>, << InboxNote(ids[1]),
                                       MkNote(ids[2], <<"M">>, FALSE, <<>>, <<>>) >>),
           MkNotebook("B", <<"q">>, << MkNote(ids[3], <<"N">>, FALSE, <<>>, <<>>) >>),
           MkNotebook("D", <<"s">>, << MkNote(ids[5], <<"N">>, FALSE, <<>>, <<>>) >>) >>]
      : ids \in IdChoices }

\* libraries that vary the resources and cells of two same-titled notes of
\* one walked notebook, next to an orphan notebook that may have its name
ResourceLists == { <<APng>>, <<AAwebp, APng>>, <<HexName>> }

CellTexts ==
    { ImageRef(APng) \o <<" ">> \o NoteRef("x", NoteUrl, "n2"),
      ImageRef(HexName) \o <<"\n">> \o NoteRef("y", NotesUrl, "n2")
          \o <<" ">> \o NoteRef("z", NoteUrl, "n9"),
      NoteRef("z", NoteUrl, "n9") \o <<" ">> \o NoteRef("z", NotesUrl, "n9")
          \o <<"\n">> \o NoteRef("x", NoteUrl, "n2") }

WriteLibraries ==
    { [meta |-> Node("R", << Node("A", <<>>) >>),
       notebooks |-> <<
           MkNotebook("A", <<"p">>,
               << MkNote("n1", <<"N">>, TRUE, f1, << Markdown(c1) >>),
                  MkNote("n2", <<"N">>, f2 # <<>>, f2,
                         << Markdown(ImageRef(APng)) >>) >>),
           MkNotebook("C", nm, << MkNote("n3", <<"M">>, TRUE, <<APng>>, <<>>) >>) >>]
      : f1 \in ResourceLists, f2 \in {<<>>, <<APng>>},
        c1 \in CellTexts, nm \in {<<"p">>, <<"r">>} }

\* libraries of one note alone, with cells that refer to its resources
ResourceCells ==
    { ImageRef(AAwebp), ImageRef(APng), ImageRef(HexName),
      ImageRef(AAwebp) \o <<"\n">> \o ImageRef(APng) }

OneNoteLibraries ==
    { [meta |-> Node("R", << Node("A", <<>>) >>),
       notebooks |-> <<
           MkNotebook("A", <<"p">>,
               << MkNote("n1", <<"N">>, TRUE, f1, << Markdown(c1) >>) >>) >>]
      : f1 \in ResourceLists, c1 \in ResourceCells }

\* the -e option: none, or awebp
ExtConfigs == {{}, {".awebp"}}

\* what outputPath may be: absent, a file, a directory without quiver in
\* it, a directory that holds a quiver of an export made before
OutputStates == {"absent", "file", "empty", "export"}

SetupOn(lib, exts, out) == [lib |-> lib, exts |-> exts, out |-> out]
Setup(lib, exts) == SetupOn(lib, exts, "absent")

HierSetups  == {Setup(lib, {}) : lib \in HierLibraries}
PlanSetups  == {Setup(lib, {}) : lib \in TitleLibraries \cup IdLibraries}
WriteSetups == {Setup(lib, exts) : lib \in WriteLibraries, exts \in ExtConfigs}
OutputSetups == {SetupOn(lib, {}, out) : lib \in IdLibraries, out \in OutputStates}
OneNoteSetups == {Setup(lib, exts) : lib \in OneNoteLibraries, exts \in ExtConfigs}

-----------------------------------------------------------------------------
(* The export: planning *)

NotReading == [pending |-> {}, notes |-> <<>>]
NoContent == [names |-> <<>>, between |-> <<>>, exts |-> {}]
NoText == [data |-> <<>>, map |-> <<>>]
NotRewritten == [called |-> FALSE, data |-> <<>>]

NoCall == [noteName |-> <<>>, currentNames |-> <<>>, index |-> 0]
NotCalled == [called |-> FALSE, threw |-> FALSE, value |-> <<>>, reversed |-> <<>>]
NoName == [name |-> <<>>, exts |-> {}]
NotNamed == [called |-> FALSE, once |-> <<>>, twice |-> <<>>]

InitWith(setups) ==
    /\ \E s \in setups :
          library = s.lib /\ needReplaceExtNames = s.exts /\ outputState = s.out
    /\ exitCode = -1
    /\ phase = "check"
    /\ error = ""
    /\ walkPos = 1
    /\ orphanPos = 1
    /\ notebooksInMeta = {}
    /\ newNotePathRecord = <<>>
    /\ planLog = <<>>
    /\ callbackLog = <<>>
    /\ warnings = <<>>
    /\ noteCount = 0
    /\ barTicks = 0
    /\ spinner = FALSE
    /\ spinnerStops = 0
    /\ tasks = <<>>
    /\ currentNoteResourceMap = <<>>
    /\ brokenLinks = <<>>
    /\ files = <<>>
    /\ dirs = {}
    /\ copyLog = {}
    /\ rewriteLog = {}
    /\ reported = <<"none">>
    /\ resolveIn = NoCall
    /\ resolveOut = NotCalled
    /\ nameIn = NoName
    /\ nameOut = NotNamed
    /\ finalIn = NoText
    /\ finalOut = NotRewritten
    /\ contentIn = NoContent
    /\ contentOut = NotRewritten
    /\ notebookDir = <<>>
    /\ reading = NotReading

\* the Error of checkOutputDirPath was not the directory check alone
checkOutputDirPathDirOnly(out) == IF out = "file" THEN "notdir" ELSE ""

\* checkOutputDirPath: the message of the Error it throws, "" when it returns
checkOutputDirPath(out) ==
    IF out = "absent" THEN ""
    ELSE IF out = "file" THEN "notdir"
    ELSE IF out = "empty" THEN ""
    ELSE "exists"

\* transformQvLibraryToObsidian up to the planning walk: the check of the
\* output path, the 'Reading library...' spinner started
CheckOutput ==
    /\ phase = "check"
    /\ LET message == checkOutputDirPath(outputState)
       IN  IF message # ""
           THEN /\ phase' = "failed"
                /\ error' = message
                /\ UNCHANGED spinner
           ELSE /\ phase' = "plan"
                /\ spinner' = TRUE
                /\ UNCHANGED error
    /\ UNCHANGED <<library, walkPos, orphanPos, notebooksInMeta, newNotePathRecord,
                   planLog, callbackLog, warnings, needReplaceExtNames, noteCount,
                   barTicks, spinnerStops, tasks, currentNoteResourceMap,
                   brokenLinks, files, dirs, copyLog, rewriteLog, reported, fnVars,
                   cliVars>>

\* execute of the CLI: process.exit(0) after the export, process.exit(1) in
\* the catch of any Error
Exit ==
    /\ phase \in {"done", "failed"}
    /\ exitCode = -1
    /\ exitCode' = IF phase = "done" THEN 0 ELSE 1
    /\ UNCHANGED <<planVars, writeVars, fnVars, outputState>>

\* one call of the planning walk: the wrapper, then the planner's callback
WalkStep ==
    /\ phase = "plan"
    /\ walkPos <= Len(MetaCalls(library))
    /\ LET call == MetaCalls(library)[walkPos]
           outcome == WalkOutcome(library, call)
       IN  /\ walkPos' = walkPos + 1
           /\ UNCHANGED <<library, orphanPos, writeVars, fnVars, cliVars>>
           /\ IF outcome # "visit"
              THEN /\ warnings' = Append(warnings, WarnedId(library, call))
                   /\ UNCHANGED <<phase, error, notebooksInMeta, newNotePathRecord,
                                  planLog, callbackLog>>
              ELSE LET idx == NotebookIndex(library, call.uuid)
                       notebook == library.notebooks[idx]
                       hasNotes == Len(notebook.notes) > 0
                       hasChildren == notebookHasChildren(library, notebook.uuid)
                       \* parentNotebook.meta.name of an undefined parent is a
                       \* TypeError
                       undefinedParent == \E i \in 1..Len(call.parents) :
                                             NotebookIndex(library, call.parents[i]) = 0
                       r == PlanNotebook(idx, notebook, WalkedPath(library, call),
                                         newNotePathRecord)
                   IN  /\ notebooksInMeta' = notebooksInMeta \cup {notebook.uuid}
                       /\ callbackLog' = Append(callbackLog, call)
                       /\ UNCHANGED warnings
                       /\ IF ~hasNotes /\ ~hasChildren
                          THEN UNCHANGED <<phase, error, newNotePathRecord, planLog>>
                          ELSE IF undefinedParent
                          THEN /\ phase' = "failed"
                               /\ error' = "type"
                               /\ UNCHANGED <<newNotePathRecord, planLog>>
                          ELSE IF ~hasNotes
                          THEN UNCHANGED <<phase, error, newNotePathRecord, planLog>>
                          ELSE /\ newNotePathRecord' = r.record
                               /\ planLog' = planLog \o r.log
                               /\ phase' = IF r.threw THEN "failed" ELSE phase
                               /\ error' = r.error

\* one notebook of the orphan pass of the planner
OrphanStep ==
    /\ phase = "plan"
    /\ walkPos > Len(MetaCalls(library))
    /\ orphanPos <= Len(library.notebooks)
    /\ LET notebook == library.notebooks[orphanPos]
           r == PlanNotebook(orphanPos, notebook, OrphanPath(notebook), newNotePathRecord)
       IN  /\ orphanPos' = orphanPos + 1
           /\ UNCHANGED <<library, walkPos, notebooksInMeta, callbackLog, warnings,
                          writeVars, fnVars, cliVars>>
           /\ IF notebook.uuid \in notebooksInMeta \/ Len(notebook.notes) = 0
              THEN UNCHANGED <<phase, error, newNotePathRecord, planLog>>
              ELSE /\ newNotePathRecord' = r.record
                   /\ planLog' = planLog \o r.log
                   /\ phase' = IF r.threw THEN "failed" ELSE phase
                   /\ error' = r.error

-----------------------------------------------------------------------------
(* The export: writing *)

Prefixes(p) == {SubSeq(p, 1, k) : k \in 1..Len(p)}

RECURSIVE Flatten(_)
Flatten(seqs) == IF seqs = <<>> THEN <<>> ELSE Head(seqs) \o Flatten(Tail(seqs))

\* the calls of the walk of writeLibrary that reach its callback
VisitedCalls(lib) ==
    SelectSeq(MetaCalls(lib), LAMBDA call : WalkOutcome(lib, call) = "visit")

SkippedIds(lib) ==
    LET skipped == SelectSeq(MetaCalls(lib), LAMBDA call : WalkOutcome(lib, call) # "visit")
    IN  [i \in 1..Len(skipped) |-> WarnedId(lib, skipped[i])]

\* a notebookInfoList of the walked notebooks alone
NotebookInfoListOfWalk(lib) ==
    LET visited == VisitedCalls(lib)
        walked == SelectSeq(visited, LAMBDA call :
                      Len(lib.notebooks[NotebookIndex(lib, call.uuid)].notes) > 0)
    IN  [i \in 1..Len(walked) |->
            [nb |-> NotebookIndex(lib, walked[i].uuid),
             notebookPath |-> WalkedPath(lib, walked[i])]]

\* notebookInfoList of writeLibrary: the walked notebooks with notes, then
\* the notebooks its walk did not visit that have notes
NotebookInfoList(lib) ==
    LET visited == VisitedCalls(lib)
        inMeta == {visited[i].uuid : i \in 1..Len(visited)}
        walked == SelectSeq(visited, LAMBDA call :
                      Len(lib.notebooks[NotebookIndex(lib, call.uuid)].notes) > 0)
        orphans == SelectSeq([i \in 1..Len(lib.notebooks) |-> i], LAMBDA i :
                      /\ lib.notebooks[i].uuid \notin inMeta
                      /\ Len(lib.notebooks[i].notes) > 0)
    IN  [i \in 1..Len(walked) |->
            [nb |-> NotebookIndex(lib, walked[i].uuid),
             notebookPath |-> WalkedPath(lib, walked[i])]]
        \o [i \in 1..Len(orphans) |->
            [nb |-> orphans[i], notebookPath |-> OrphanPath(lib.notebooks[orphans[i]])]]

\* the 100 of `if (counter > 100)` of copyResource
MAX_COLLISION_COUNT == 100

ResourceDir(notePath) == Append(Dirname(notePath), <<ResTag>>)

\* writeNote up to its first await: the map is cleared, the resource
\* directory made, the first pathExists or the createFile issued
StartTask(lib, info, k, record, exts) ==
    LET note == lib.notebooks[info.nb].notes[k]
        first == note.hasResources /\ Len(note.files) > 0
    IN  [nb |-> info.nb, note |-> k, uuid |-> note.uuid,
         path |-> record[note.uuid],
         pc |-> IF first THEN "exists" ELSE "create",
         ri |-> 1,
         fileName |-> IF first THEN replaceResourceName(note.files[1], TRUE, exts)
                      ELSE <<>>,
         counter |-> 1,
         ci |-> 1]

NotebookTasks(lib, info, record, exts) ==
    [k \in 1..Len(lib.notebooks[info.nb].notes) |-> StartTask(lib, info, k, record, exts)]

\* writeLibrary up to its await: every writeNotebook and writeNote call runs
\* to its first await before any continuation does
WriteLibrary ==
    /\ phase = "plan"
    /\ walkPos > Len(MetaCalls(library))
    /\ orphanPos > Len(library.notebooks)
    /\ LET list == NotebookInfoList(library)
           started == Flatten([i \in 1..Len(list) |->
                         NotebookTasks(library, list[i], newNotePathRecord,
                                       needReplaceExtNames)])
       IN  /\ phase' = "write"
           /\ noteCount' = Cardinality(DOMAIN newNotePathRecord)
           /\ warnings' = warnings \o SkippedIds(library)
           /\ tasks' = started
           /\ currentNoteResourceMap' = <<>>
           /\ dirs' = dirs
                \cup UNION {Prefixes(list[i].notebookPath) : i \in 1..Len(list)}
                \cup UNION {Prefixes(ResourceDir(started[t].path)) :
                              t \in {u \in 1..Len(started) :
                                 library.notebooks[started[u].nb]
                                     .notes[started[u].note].hasResources}}
    /\ UNCHANGED <<library, error, walkPos, orphanPos, notebooksInMeta,
                   newNotePathRecord, planLog, callbackLog, needReplaceExtNames,
                   barTicks, spinner, spinnerStops, brokenLinks, files, copyLog,
                   rewriteLog, reported, fnVars, cliVars>>

TaskNote(t) == library.notebooks[tasks[t].nb].notes[tasks[t].note]

FinalPath(t) == Append(ResourceDir(tasks[t].path), tasks[t].fileName)

\* copyResource resumes after `await fse.pathExists(finalPath)`
PathExistsDone(t) ==
    /\ phase = "write"
    /\ tasks[t].pc = "exists"
    /\ IF FinalPath(t) \in DOMAIN files
       THEN IF tasks[t].counter + 1 > MAX_COLLISION_COUNT
            THEN /\ phase' = "failed"
                 /\ error' = "collisions"
                 /\ UNCHANGED tasks
            ELSE /\ tasks' = [tasks EXCEPT
                        ![t].fileName = CollisionName(tasks[t].fileName, tasks[t].counter),
                        ![t].counter = tasks[t].counter + 1]
                 /\ UNCHANGED <<phase, error>>
       ELSE /\ tasks' = [tasks EXCEPT ![t].pc = "copy"]
            /\ UNCHANGED <<phase, error>>
    /\ UNCHANGED <<library, walkPos, orphanPos, notebooksInMeta, newNotePathRecord,
                   planLog, callbackLog, warnings, needReplaceExtNames, noteCount,
                   barTicks, spinner, spinnerStops, currentNoteResourceMap,
                   brokenLinks, files, dirs, copyLog, rewriteLog, reported, fnVars, cliVars>>

\* a writeNote that turns to the markdown once its first resource is copied
CopyFileDoneFirstOnly(t) ==
    /\ phase = "write"
    /\ tasks[t].pc = "copy"
    /\ LET note == TaskNote(t)
           ri == tasks[t].ri
       IN  /\ files' = (FinalPath(t) :>
                          [kind |-> "resource", nb |-> tasks[t].nb,
                           note |-> tasks[t].note, ri |-> ri]) @@ files
           /\ copyLog' = copyLog \cup
                          {[task |-> t, ri |-> ri, name |-> note.files[ri],
                            finalName |-> tasks[t].fileName, dst |-> FinalPath(t)]}
           /\ currentNoteResourceMap' =
                  (note.files[ri] :> tasks[t].fileName) @@ currentNoteResourceMap
           /\ tasks' = [tasks EXCEPT ![t].pc = "create", ![t].ri = ri + 1,
                                     ![t].counter = 1, ![t].fileName = <<>>]
    /\ UNCHANGED <<planVars, needReplaceExtNames, noteCount, barTicks, spinner,
                   spinnerStops, brokenLinks, dirs, rewriteLog, reported, fnVars, cliVars>>

\* copyResource resumes after `await fse.copyFile`, returns, and writeNote
\* records the mapping and turns to the next resource or to the markdown
CopyFileDone(t) ==
    /\ phase = "write"
    /\ tasks[t].pc = "copy"
    /\ LET note == TaskNote(t)
           ri == tasks[t].ri
           more == ri < Len(note.files)
       IN  /\ files' = (FinalPath(t) :>
                          [kind |-> "resource", nb |-> tasks[t].nb,
                           note |-> tasks[t].note, ri |-> ri]) @@ files
           /\ copyLog' = copyLog \cup
                          {[task |-> t, ri |-> ri, name |-> note.files[ri],
                            finalName |-> tasks[t].fileName, dst |-> FinalPath(t)]}
           /\ currentNoteResourceMap' =
                  (note.files[ri] :> tasks[t].fileName) @@ currentNoteResourceMap
           /\ tasks' = [tasks EXCEPT
                  ![t].pc = IF more THEN "exists" ELSE "create",
                  ![t].ri = ri + 1,
                  ![t].counter = 1,
                  ![t].fileName = IF more
                                  THEN replaceResourceName(note.files[ri + 1], TRUE,
                                                           needReplaceExtNames)
                                  ELSE <<>>]
    /\ UNCHANGED <<planVars, needReplaceExtNames, noteCount, barTicks, spinner,
                   spinnerStops, brokenLinks, dirs, rewriteLog, reported, fnVars, cliVars>>

\* writeNoteToMarkdown: the file is created and opened, the front matter
\* written, the content read
MarkdownOpened(t) ==
    /\ phase = "write"
    /\ tasks[t].pc = "create"
    /\ files' = (tasks[t].path :>
                    [kind |-> "markdown", nb |-> tasks[t].nb, note |-> tasks[t].note,
                     ri |-> 0]) @@ files
    /\ dirs' = dirs \cup Prefixes(Dirname(tasks[t].path))
    /\ tasks' = [tasks EXCEPT ![t].pc = "cells"]
    /\ UNCHANGED <<planVars, needReplaceExtNames, noteCount, barTicks, spinner,
                   spinnerStops, currentNoteResourceMap, brokenLinks, copyLog,
                   rewriteLog, reported, fnVars, cliVars>>

\* one cell of the loop of writeNoteToMarkdown: transformed, then written
RewriteCell(t) ==
    /\ phase = "write"
    /\ tasks[t].pc = "cells"
    /\ tasks[t].ci <= Len(TaskNote(t).cells)
    /\ LET note == TaskNote(t)
           cell == note.cells[tasks[t].ci]
           r == IF cell.type = "markdown"
                THEN transformQuiverResourceAndNoteLink(cell.data, needReplaceExtNames,
                         currentNoteResourceMap, newNotePathRecord)
                ELSE [out |-> <<CodeFence>> \o cell.data \o <<CodeFence>>, miss |-> <<>>]
       IN  /\ brokenLinks' = brokenLinks \o
                  [i \in 1..Len(r.miss) |->
                      [sourceNoteTitle |-> note.title, sourceNoteId |-> note.uuid,
                       targetNoteId |-> r.miss[i]]]
           /\ rewriteLog' = rewriteLog \cup
                  {[task |-> t, cell |-> tasks[t].ci, map |-> currentNoteResourceMap,
                    out |-> r.out]}
    /\ tasks' = [tasks EXCEPT ![t].ci = tasks[t].ci + 1]
    /\ UNCHANGED <<planVars, needReplaceExtNames, noteCount, barTicks, spinner,
                   spinnerStops, currentNoteResourceMap, files, dirs, copyLog,
                   reported, fnVars, cliVars>>

\* a writeNote that takes its note out of the plan when it ends
NoteDoneConsumingPlan(t) ==
    /\ phase = "write"
    /\ tasks[t].pc = "cells"
    /\ tasks[t].ci > Len(TaskNote(t).cells)
    /\ tasks' = [tasks EXCEPT ![t].pc = "done"]
    /\ spinner' = FALSE
    /\ spinnerStops' = IF spinner THEN spinnerStops + 1 ELSE spinnerStops
    /\ barTicks' = barTicks + 1
    /\ newNotePathRecord' =
          [u \in DOMAIN newNotePathRecord \ {TaskNote(t).uuid} |-> newNotePathRecord[u]]
    /\ UNCHANGED <<library, phase, error, walkPos, orphanPos, notebooksInMeta, planLog,
                   callbackLog, warnings, needReplaceExtNames, noteCount,
                   currentNoteResourceMap, brokenLinks, files, dirs, copyLog,
                   rewriteLog, reported, fnVars, cliVars>>

\* a writeNote that stops the spinner without looking whether it is set
NoteDoneStoppingAlways(t) ==
    /\ phase = "write"
    /\ tasks[t].pc = "cells"
    /\ tasks[t].ci > Len(TaskNote(t).cells)
    /\ tasks' = [tasks EXCEPT ![t].pc = "done"]
    /\ spinner' = FALSE
    /\ spinnerStops' = spinnerStops + 1
    /\ barTicks' = barTicks + 1
    /\ UNCHANGED <<planVars, needReplaceExtNames, noteCount, currentNoteResourceMap,
                   brokenLinks, files, dirs, copyLog, rewriteLog, reported, fnVars, cliVars>>

\* the end of writeNote: the file closed, the times set, the spinner
\* cleared, the bar ticked
NoteDone(t) ==
    /\ phase = "write"
    /\ tasks[t].pc = "cells"
    /\ tasks[t].ci > Len(TaskNote(t).cells)
    /\ tasks' = [tasks EXCEPT ![t].pc = "done"]
    /\ spinner' = FALSE
    /\ spinnerStops' = IF spinner THEN spinnerStops + 1 ELSE spinnerStops
    /\ barTicks' = barTicks + 1
    /\ UNCHANGED <<planVars, needReplaceExtNames, noteCount, currentNoteResourceMap,
                   brokenLinks, files, dirs, copyLog, rewriteLog, reported, fnVars, cliVars>>

\* a report made as soon as one note is written, the others still in work
ReportBrokenLinksUnawaited ==
    /\ phase = "write"
    /\ \E t \in 1..Len(tasks) : tasks[t].pc = "done"
    /\ phase' = "done"
    /\ reported' = brokenLinks
    /\ UNCHANGED <<library, error, walkPos, orphanPos, notebooksInMeta,
                   newNotePathRecord, planLog, callbackLog, warnings,
                   needReplaceExtNames, noteCount, barTicks, spinner, spinnerStops,
                   tasks, currentNoteResourceMap, brokenLinks, files, dirs, copyLog,
                   rewriteLog, fnVars, cliVars>>

\* Promise.all of writeLibrary resolves; reportBrokenLinks
ReportBrokenLinks ==
    /\ phase = "write"
    /\ \A t \in 1..Len(tasks) : tasks[t].pc = "done"
    /\ phase' = "done"
    /\ reported' = brokenLinks
    /\ UNCHANGED <<library, error, walkPos, orphanPos, notebooksInMeta,
                   newNotePathRecord, planLog, callbackLog, warnings,
                   needReplaceExtNames, noteCount, barTicks, spinner, spinnerStops,
                   tasks, currentNoteResourceMap, brokenLinks, files, dirs, copyLog,
                   rewriteLog, fnVars, cliVars>>

Next ==
    \/ CheckOutput
    \/ Exit
    \/ WalkStep
    \/ OrphanStep
    \/ WriteLibrary
    \/ \E t \in 1..Len(tasks) : PathExistsDone(t)
    \/ \E t \in 1..Len(tasks) : CopyFileDone(t)
    \/ \E t \in 1..Len(tasks) : MarkdownOpened(t)
    \/ \E t \in 1..Len(tasks) : RewriteCell(t)
    \/ \E t \in 1..Len(tasks) : NoteDone(t)
    \/ ReportBrokenLinks

-----------------------------------------------------------------------------
(* newDistinctNoteName on its own: the inputs are drawn, the call applied *)

\* names a notebook may already hold, among them renamings of "N" up to the
\* last suffix the function tries
UsedNames ==
    { <<"N">>, <<"N", " ", "2">>, <<"N", " ", "3">>, <<"N", " ", "2", " ", "2">>,
      <<"N", " ", "9", "9">>, <<"N", " ", "1", "0", "0">> }

\* the names that the planner has given to 100 notes titled "N" of one
\* notebook: "N", "N 2", ..., "N 100"
HundredNames ==
    [i \in 1..MAX_RENAME_COUNT |->
        IF i = 1 THEN <<"N">> ELSE <<"N", " ">> \o IntToStr(i)]

UsedLists == UNION { [1..n -> UsedNames] : n \in 0..MaxNotes } \cup {HundredNames}

StartSuffixes == {1, 2, 3, MAX_RENAME_COUNT - 1, MAX_RENAME_COUNT, MAX_RENAME_COUNT + 1}

Reverse(list) == [i \in 1..Len(list) |-> list[Len(list) + 1 - i]]

InitResolve ==
    /\ library = [meta |-> Node("R", <<>>), notebooks |-> <<>>]
    /\ needReplaceExtNames = {}
    /\ phase = "resolve"
    /\ error = ""
    /\ walkPos = 1
    /\ orphanPos = 1
    /\ notebooksInMeta = {}
    /\ newNotePathRecord = <<>>
    /\ planLog = <<>>
    /\ callbackLog = <<>>
    /\ warnings = <<>>
    /\ noteCount = 0
    /\ barTicks = 0
    /\ spinner = FALSE
    /\ spinnerStops = 0
    /\ tasks = <<>>
    /\ currentNoteResourceMap = <<>>
    /\ brokenLinks = <<>>
    /\ files = <<>>
    /\ dirs = {}
    /\ copyLog = {}
    /\ rewriteLog = {}
    /\ reported = <<"none">>
    /\ resolveIn \in [noteName : {<<"N">>, <<"N", " ", "2">>},
                      currentNames : UsedLists,
                      index : StartSuffixes]
    /\ resolveOut = NotCalled
    /\ nameIn = NoName
    /\ nameOut = NotNamed
    /\ finalIn = NoText
    /\ finalOut = NotRewritten
    /\ contentIn = NoContent
    /\ contentOut = NotRewritten
    /\ notebookDir = <<>>
    /\ reading = NotReading
    /\ outputState = "absent"
    /\ exitCode = -1

\* the call, and the same call with the names in the opposite order
ApplyResolve ==
    /\ phase = "resolve"
    /\ ~resolveOut.called
    /\ LET r == newDistinctNoteName(resolveIn.noteName, resolveIn.currentNames,
                                    resolveIn.index)
           q == newDistinctNoteName(resolveIn.noteName, Reverse(resolveIn.currentNames),
                                    resolveIn.index)
       IN  resolveOut' = [called |-> TRUE, threw |-> r.threw, value |-> r.value,
                          reversed |-> IF q.threw THEN <<>> ELSE q.value]
    /\ UNCHANGED <<planVars, writeVars, resolveIn, nameIn, nameOut, finalIn, finalOut,
                   contentIn, contentOut, notebookDir, reading, cliVars>>

NextResolve == ApplyResolve

-----------------------------------------------------------------------------
(* replaceResourceName on a file name, on its own *)

MaxNameLen == 3
MaxTextLen == 4

NameTokens == {Hex32, "a", ".png", ".PNG", ".awebp", ".txt", " ", "&"}

FileNames == UNION { [1..n -> NameTokens] : n \in 1..MaxNameLen }

\* the -e option: none, awebp, png
NameExtConfigs == {{}, {".awebp"}, {".png"}}

InitRename ==
    /\ library = [meta |-> Node("R", <<>>), notebooks |-> <<>>]
    /\ needReplaceExtNames = {}
    /\ phase = "rename"
    /\ error = ""
    /\ walkPos = 1
    /\ orphanPos = 1
    /\ notebooksInMeta = {}
    /\ newNotePathRecord = <<>>
    /\ planLog = <<>>
    /\ callbackLog = <<>>
    /\ warnings = <<>>
    /\ noteCount = 0
    /\ barTicks = 0
    /\ spinner = FALSE
    /\ spinnerStops = 0
    /\ tasks = <<>>
    /\ currentNoteResourceMap = <<>>
    /\ brokenLinks = <<>>
    /\ files = <<>>
    /\ dirs = {}
    /\ copyLog = {}
    /\ rewriteLog = {}
    /\ reported = <<"none">>
    /\ resolveIn = NoCall
    /\ resolveOut = NotCalled
    /\ nameIn \in [name : FileNames, exts : NameExtConfigs]
    /\ nameOut = NotNamed
    /\ finalIn = NoText
    /\ finalOut = NotRewritten
    /\ contentIn = NoContent
    /\ contentOut = NotRewritten
    /\ notebookDir = <<>>
    /\ reading = NotReading
    /\ outputState = "absent"
    /\ exitCode = -1

\* the call, and the call on what it returned
ApplyRename ==
    /\ phase = "rename"
    /\ ~nameOut.called
    /\ LET once == replaceResourceName(nameIn.name, TRUE, nameIn.exts)
       IN  nameOut' = [called |-> TRUE, once |-> once,
                       twice |-> replaceResourceName(once, TRUE, nameIn.exts)]
    /\ UNCHANGED <<planVars, writeVars, resolveIn, resolveOut, nameIn, finalIn, finalOut,
                   contentIn, contentOut, notebookDir, reading, cliVars>>

NextRename == ApplyRename

\* The final-name step of transformQuiverResourceAndNoteLink as a function
\* of the text it is given and of the resource map
FinalTokens == {ResTag, "a", ".png", ")", "\\", " ", "?", "\n"}

FinalTexts == UNION { [1..n -> FinalTokens] : n \in 1..MaxTextLen }

\* resource maps: none copied; a.png copied under another name; a and
\* a.png both copied
FinalMaps ==
    { <<>>,
      (<<"a", ".png">> :> <<"a", "_", "1", ".png">>),
      (<<"a">> :> <<"a", "_", "1">>) @@ (<<"a", ".png">> :> <<"a", ".png">>) }

InitFinal ==
    /\ library = [meta |-> Node("R", <<>>), notebooks |-> <<>>]
    /\ needReplaceExtNames = {}
    /\ phase = "final"
    /\ error = ""
    /\ walkPos = 1
    /\ orphanPos = 1
    /\ notebooksInMeta = {}
    /\ newNotePathRecord = <<>>
    /\ planLog = <<>>
    /\ callbackLog = <<>>
    /\ warnings = <<>>
    /\ noteCount = 0
    /\ barTicks = 0
    /\ spinner = FALSE
    /\ spinnerStops = 0
    /\ tasks = <<>>
    /\ currentNoteResourceMap = <<>>
    /\ brokenLinks = <<>>
    /\ files = <<>>
    /\ dirs = {}
    /\ copyLog = {}
    /\ rewriteLog = {}
    /\ reported = <<"none">>
    /\ resolveIn = NoCall
    /\ resolveOut = NotCalled
    /\ nameIn = NoName
    /\ nameOut = NotNamed
    /\ finalIn \in [data : FinalTexts, map : FinalMaps]
    /\ finalOut = NotRewritten
    /\ contentIn = NoContent
    /\ contentOut = NotRewritten
    /\ notebookDir = <<>>
    /\ reading = NotReading
    /\ outputState = "absent"
    /\ exitCode = -1

ApplyFinal ==
    /\ phase = "final"
    /\ ~finalOut.called
    /\ finalOut' = [called |-> TRUE,
                    data |-> GlobalReplace("final", finalIn.data, 1,
                                [exts |-> {}, map |-> finalIn.map, record |-> <<>>]).out]
    /\ UNCHANGED <<planVars, writeVars, resolveIn, resolveOut, nameIn, nameOut, finalIn,
                   contentIn, contentOut, notebookDir, reading, cliVars>>

NextFinal == ApplyFinal

\* replaceResourceName(_, false) as a function of a text that holds one or
\* two references (_resources/<name>), and of the -e option
ContentNames ==
    { <<"a", ".png">>, <<"a", ".png", " ", "a">>, <<"a", ".PNG", "?", "a">>,
      <<"a", ".awebp">>, <<"a", ".txt">>, <<Hex32>>, <<Hex32, ".png">>, <<"a">> }

\* what stands between two references: on one line, or a line break
Betweens == { <<" ">>, <<" ", "a", " ">>, <<"\n">> }

WrappedReference(name) == <<"(", ResTag>> \o name \o <<")">>

\* the text: the references, each after the first preceded by between
RECURSIVE ContentText(_, _)
ContentText(names, between) ==
    IF names = <<>> THEN <<>>
    ELSE IF Len(names) = 1 THEN WrappedReference(names[1])
    ELSE WrappedReference(Head(names)) \o between \o ContentText(Tail(names), between)

InitContent ==
    /\ library = [meta |-> Node("R", <<>>), notebooks |-> <<>>]
    /\ needReplaceExtNames = {}
    /\ phase = "content"
    /\ error = ""
    /\ walkPos = 1
    /\ orphanPos = 1
    /\ notebooksInMeta = {}
    /\ newNotePathRecord = <<>>
    /\ planLog = <<>>
    /\ callbackLog = <<>>
    /\ warnings = <<>>
    /\ noteCount = 0
    /\ barTicks = 0
    /\ spinner = FALSE
    /\ spinnerStops = 0
    /\ tasks = <<>>
    /\ currentNoteResourceMap = <<>>
    /\ brokenLinks = <<>>
    /\ files = <<>>
    /\ dirs = {}
    /\ copyLog = {}
    /\ rewriteLog = {}
    /\ reported = <<"none">>
    /\ resolveIn = NoCall
    /\ resolveOut = NotCalled
    /\ nameIn = NoName
    /\ nameOut = NotNamed
    /\ finalIn = NoText
    /\ finalOut = NotRewritten
    /\ contentIn \in [names : UNION {[1..n -> ContentNames] : n \in 1..2},
                      between : Betweens,
                      exts : NameExtConfigs]
    /\ contentOut = NotRewritten
    /\ notebookDir = <<>>
    /\ reading = NotReading
    /\ outputState = "absent"
    /\ exitCode = -1

ApplyContent ==
    /\ phase = "content"
    /\ ~contentOut.called
    /\ contentOut' = [called |-> TRUE,
                      data |-> replaceResourceName(
                                   ContentText(contentIn.names, contentIn.between),
                                   FALSE, contentIn.exts)]
    /\ UNCHANGED <<planVars, writeVars, resolveIn, resolveOut, nameIn, nameOut, finalIn,
                   finalOut, contentIn, notebookDir, reading, cliVars>>

NextContent == ApplyContent

\* readNoteBook on one notebook directory, then the planning of the library
\* it returns.  The readNote calls are started in readdir order and run
\* concurrently; each pushes its note when it completes.
DirTitles == { <<"N">>, <<"M">> }

NotebookDirs ==
    UNION { { [k \in 1..n |-> MkNote(NoteIds[k], ts[k], FALSE, <<>>, <<>>)]
              : ts \in [1..n -> DirTitles] } : n \in 1..MaxNotes }

InitLoad ==
    /\ library = [meta |-> Node("R", << Node("A", <<>>) >>), notebooks |-> <<>>]
    /\ needReplaceExtNames = {}
    /\ phase = "load"
    /\ error = ""
    /\ walkPos = 1
    /\ orphanPos = 1
    /\ notebooksInMeta = {}
    /\ newNotePathRecord = <<>>
    /\ planLog = <<>>
    /\ callbackLog = <<>>
    /\ warnings = <<>>
    /\ noteCount = 0
    /\ barTicks = 0
    /\ spinner = FALSE
    /\ spinnerStops = 0
    /\ tasks = <<>>
    /\ currentNoteResourceMap = <<>>
    /\ brokenLinks = <<>>
    /\ files = <<>>
    /\ dirs = {}
    /\ copyLog = {}
    /\ rewriteLog = {}
    /\ reported = <<"none">>
    /\ resolveIn = NoCall
    /\ resolveOut = NotCalled
    /\ nameIn = NoName
    /\ nameOut = NotNamed
    /\ finalIn = NoText
    /\ finalOut = NotRewritten
    /\ contentIn = NoContent
    /\ contentOut = NotRewritten
    /\ notebookDir \in NotebookDirs
    /\ reading = [pending |-> 1..Len(notebookDir), notes |-> <<>>]
    /\ outputState = "absent"
    /\ exitCode = -1

\* one readNote resolves: notes.push(await readNote(filePath))
ReadNoteDone(k) ==
    /\ phase = "load"
    /\ k \in reading.pending
    /\ reading' = [pending |-> reading.pending \ {k},
                   notes |-> Append(reading.notes, notebookDir[k])]
    /\ UNCHANGED <<planVars, writeVars, resolveIn, resolveOut, nameIn, nameOut, finalIn,
                   finalOut, contentIn, contentOut, notebookDir, cliVars>>

\* Promise.all of readNoteBook resolves, readLibrary returns, and
\* transformQvLibraryToObsidian begins on the library read
ReadNoteBookDone ==
    /\ phase = "load"
    /\ reading.pending = {}
    /\ library' = [library EXCEPT !.notebooks = << MkNotebook("A", <<"p">>, reading.notes) >>]
    /\ phase' = "plan"
    /\ UNCHANGED <<error, walkPos, orphanPos, notebooksInMeta, newNotePathRecord, planLog,
                   callbackLog, warnings, writeVars, fnVars, cliVars>>

NextLoad == (\E k \in 1..MaxNotes : ReadNoteDone(k)) \/ ReadNoteBookDone \/ WalkStep

Init == InitWith(HierSetups \cup PlanSetups \cup WriteSetups \cup OutputSetups
                 \cup OneNoteSetups)
InitOutput == InitWith(OutputSetups)
InitHier == InitWith(HierSetups)
InitPlan == InitWith(PlanSetups)
InitWrite == InitWith(WriteSetups)
InitOneNote == InitWith(OneNoteSetups)

\* every library of the model
Spec == Init /\ [][Next]_vars
\* the libraries that vary the declared hierarchy
SpecHier == InitHier /\ [][Next]_vars
\* the libraries that vary note titles and note uuids
SpecPlan == InitPlan /\ [][Next]_vars
\* the libraries that vary resources and cells
SpecWrite == InitWrite /\ [][Next]_vars
\* the export with every state of the output path
SpecOutput == InitOutput /\ [][Next]_vars
\* newDistinctNoteName applied to drawn inputs
SpecResolve == InitResolve /\ [][NextResolve]_vars
\* replaceResourceName applied to drawn file names
SpecRename == InitRename /\ [][NextRename]_vars

SpecFinal == InitFinal /\ [][NextFinal]_vars

SpecContent == InitContent /\ [][NextContent]_vars

SpecLoad == InitLoad /\ [][NextLoad]_vars

\* the libraries of one note: no other writeNote shares the resource map
SpecOneNote == InitOneNote /\ [][Next]_vars

-----------------------------------------------------------------------------
(* Properties *)

OnDisk(uuid) == \E i \in 1..Len(library.notebooks) : library.notebooks[i].uuid = uuid

PlanningOver ==
    /\ walkPos > Len(MetaCalls(library))
    /\ orphanPos > Len(library.notebooks)

\* the ExportPlan entries of the notes of one notebook, in first-seen order
NotebookEntries(nb) == SelectSeq(planLog, LAMBDA e : e.nb = nb)

Suffixed(name, n) == name \o <<" ">> \o IntToStr(n)

\* C1: no two distinct notes are assigned the same target path in the
\* ExportPlan, whatever the library, two notebooks whose names give the same
\* output directory included.
C1_DistinctTargetPaths ==
    \A i, j \in 1..Len(planLog) :
        planLog[i].uuid # planLog[j].uuid => planLog[i].path # planLog[j].path

\* C2: any two resource files copied during one run, under every
\* interleaving of the writeNote calls, are written to different
\* destinations, and both final files exist.
C2_DistinctDestinations ==
    \A c, d \in copyLog :
        /\ c.dst \in DOMAIN files
        /\ c # d => c.dst # d.dst

MapEntries(map) == {<<k, map[k]>> : k \in DOMAIN map}

\* the originalName -> finalName entries made for the resources of the note
\* of task t
OwnEntries(t) == {<<c.name, c.finalName>> : c \in {d \in copyLog : d.task = t}}

\* C3: whenever a cell of note N is rewritten, the resource map holds exactly
\* the originalName -> finalName entries of N's own resources, and none made
\* for another note.
C3_MapHoldsOwnEntries ==
    \A r \in rewriteLog : MapEntries(r.map) = OwnEntries(r.task)

NotePositions ==
    UNION { {<<i, k>> : k \in 1..Len(library.notebooks[i].notes)} :
              i \in 1..Len(library.notebooks) }

NoteIdAt(p) == library.notebooks[p[1]].notes[p[2]].uuid

\* pairs of notes of the library with one Note.id
DuplicatePairs ==
    {pq \in NotePositions \X NotePositions :
        pq[1] # pq[2] /\ NoteIdAt(pq[1]) = NoteIdAt(pq[2])}

\* C4: when a Note.id occurs on two notes of the library, the export does
\* not get past planning: planning ends in the duplicate-id error, and no
\* note or resource file has been written.
C4_DuplicateIdFailsPlanning ==
    DuplicatePairs # {} =>
        /\ phase \in {"check", "plan", "failed"}
        /\ phase = "plan" => ~PlanningOver
        /\ phase = "failed" => error = "duplicate"
        /\ DOMAIN files = {}
        /\ copyLog = {}

\* planning has failed on an id that a walked and an orphan notebook share
C4_Witness ==
    /\ phase = "failed"
    /\ error = "duplicate"
    /\ \E pq \in DuplicatePairs :
          /\ library.notebooks[pq[1][1]].uuid \in notebooksInMeta
          /\ ~(\E call \in Range(MetaCalls(library)) :
                  call.uuid = library.notebooks[pq[2][1]].uuid)

\* how many of the first k entries have the title of entry k
Rank(es, k) == Cardinality({j \in 1..k : es[j].title = es[k].title})

InSequence(es) ==
    \A k \in 1..Len(es) :
        es[k].name = IF Rank(es, k) = 1 THEN es[k].title
                     ELSE Suffixed(es[k].title, Rank(es, k))

\* C5 as stated: the notes of one notebook that share a sanitized title get
\* Name, Name 2, Name 3, ... in first-seen order, whatever other titles the
\* notebook contains.
C5_SequenceWhateverTitles ==
    \A nb \in 1..Len(library.notebooks) : InSequence(NotebookEntries(nb))

\* no sanitized title of the entries is another one's followed by " n"
NoTitleIsRenaming(es) ==
    \A j, k \in 1..Len(es) :
        \A n \in 2..MAX_RENAME_COUNT : es[j].title # Suffixed(es[k].title, n)

\* C5 amended: the filenames given to the notes of one notebook are pairwise
\* distinct; a note gets its sanitized title when no earlier note of the
\* notebook was given that name, else the title followed by " n" for the
\* least n from 2 whose name no earlier note was given; the names follow
\* Name, Name 2, Name 3, ... when no title of the notebook is another title
\* followed by " n".
C5_LeastFreeSuffix ==
    \A nb \in 1..Len(library.notebooks) :
        LET es == NotebookEntries(nb)
            earlier(k) == {es[j].name : j \in 1..(k - 1)}
        IN  /\ \A j, k \in 1..Len(es) : j # k => es[j].name # es[k].name
            /\ \A k \in 1..Len(es) :
                  IF es[k].title \notin earlier(k)
                  THEN es[k].name = es[k].title
                  ELSE \E n \in 2..MAX_RENAME_COUNT :
                          /\ es[k].name = Suffixed(es[k].title, n)
                          /\ es[k].name \notin earlier(k)
                          /\ \A m \in 2..(n - 1) :
                                Suffixed(es[k].title, m) \in earlier(k)
            /\ NoTitleIsRenaming(es) => InSequence(es)

\* a second note of a title was given suffix 3, suffix 2 being the title of
\* another note; and a notebook with three notes of one title
C5_Witness ==
    /\ phase = "done"
    /\ \E nb \in 1..Len(library.notebooks) :
          LET es == NotebookEntries(nb)
          IN  \E k \in 1..Len(es) :
                 /\ Rank(es, k) = 2
                 /\ es[k].name = Suffixed(es[k].title, 3)

\* C6: newDistinctNoteName, when it returns, returns a name that is not in
\* currentNames, and the same name for the same inputs (the names in another
\* order included).
C6_ReturnsUnusedName ==
    (resolveOut.called /\ ~resolveOut.threw) =>
        /\ ~Includes(resolveIn.currentNames, resolveOut.value)
        /\ resolveOut.value = resolveOut.reversed

\* the call returned after it had to pass over names in use
C6_Witness ==
    /\ resolveOut.called
    /\ ~resolveOut.threw
    /\ Includes(resolveIn.currentNames,
                Suffixed(resolveIn.noteName, resolveIn.index))
    /\ Includes(resolveIn.currentNames,
                Suffixed(resolveIn.noteName, resolveIn.index + 1))

\* C7: the callback is never invoked for a node whose id is among its
\* ancestors; such a hierarchy makes the walk raise an error.
C7_NoVisitOfOwnAncestor ==
    \A i \in 1..Len(callbackLog) :
        callbackLog[i].uuid \notin Range(callbackLog[i].parents)

\* a call of the walk that the claim wants skipped: its id, or the id of one
\* of its ancestors, has no notebook on disk
Absent(call) ==
    ~OnDisk(call.uuid) \/ \E i \in 1..Len(call.parents) : ~OnDisk(call.parents[i])

ProcessedCalls == SubSeq(MetaCalls(library), 1, walkPos - 1)

\* C8: a declared id without a notebook on disk gets a warning; the callback
\* is invoked neither for it nor for an id of its declared subtree; the walk
\* goes on with the remaining nodes and raises no error.
C8_AbsentSubtreeSkipped ==
    /\ \A i \in 1..Len(callbackLog) : ~Absent(callbackLog[i])
    /\ callbackLog = SelectSeq(ProcessedCalls, LAMBDA call : ~Absent(call))
    /\ phase = "plan" =>
          Len(warnings) = Len(SelectSeq(ProcessedCalls, Absent))
    /\ error # "type"

\* the walk is over: an absent id with a declared child came first, both
\* were warned about, and a node after them was visited
C8_Witness ==
    /\ phase = "plan"
    /\ walkPos > Len(MetaCalls(library))
    /\ LET calls == MetaCalls(library)
       IN  /\ Len(calls) >= 3
           /\ ~OnDisk(calls[1].uuid)
           /\ calls[2].parents = <<calls[1].uuid>>
           /\ OnDisk(calls[2].uuid)
           /\ Len(warnings) = 2
           /\ callbackLog = <<calls[3]>>

\* the notebooks on disk that the walk reaches only under an absent ancestor
SkippedForAncestor ==
    {i \in 1..Len(library.notebooks) :
        LET calls == {call \in Range(MetaCalls(library)) :
                         call.uuid = library.notebooks[i].uuid}
        IN  /\ calls # {}
            /\ \A call \in calls : Absent(call)}

\* C9: a notebook on disk that the walk skips because an ancestor has no
\* notebook on disk remains unexported: no note of it gets an ExportPlan
\* entry, and nothing of it is written.
C9_SkippedStaysUnexported ==
    \A i \in SkippedForAncestor :
        /\ NotebookEntries(i) = <<>>
        /\ \A f \in DOMAIN files : files[f].nb # i

\* the targets of the note links of a cell text, in order
RECURSIVE LinkTargets(_, _)
LinkTargets(data, k) ==
    IF k > Len(data) THEN <<>>
    ELSE IF data[k - 1] \in {NoteUrl, NotesUrl}
    THEN <<data[k]>> \o LinkTargets(data, k + 1)
    ELSE LinkTargets(data, k + 1)

\* what stands between [[ and ]] in a rewritten text, link by link
RECURSIVE LinkContents(_, _)
LinkContents(out, i) ==
    IF i > Len(out) THEN <<>>
    ELSE IF out[i] = "[["
    THEN LET j == Least({x \in (i + 1)..Len(out) : out[x] = "]]"})
         IN  <<SubSeq(out, i + 1, j - 1)>> \o LinkContents(out, j + 1)
    ELSE LinkContents(out, i + 1)

RewrittenCell(r) ==
    library.notebooks[tasks[r.task].nb].notes[tasks[r.task].note].cells[r.cell]

\* the final filename of a planned note: the name planning gave it and the
\* extension
FinalFilename(uuid) ==
    (CHOOSE e \in Range(planLog) : e.uuid = uuid).name \o <<".", "m", "d">>

\* every link of a rewritten markdown cell to a planned note holds
\* content(the final filename of the note)
LinksHold(content(_)) ==
    \A r \in rewriteLog :
        RewrittenCell(r).type = "markdown" =>
            LET targets == LinkTargets(RewrittenCell(r).data, 2)
                contents == LinkContents(r.out, 1)
            IN  /\ Len(contents) = Len(targets)
                /\ \A k \in 1..Len(targets) :
                      targets[k] \in DOMAIN newNotePathRecord =>
                          contents[k] = content(FinalFilename(targets[k]))

Stem(filename) == SubSeq(filename, 1, Len(filename) - 3)
Whole(filename) == filename

\* C10 as stated: a link to a planned note is rewritten to a local link that
\* contains exactly the stem of the target's final filename.
C10_LinkHoldsStem == LinksHold(Stem)

\* C10 amended: a link to a planned note is rewritten to a local link that
\* contains exactly the target's final filename, its .md extension included.
C10_LinkHoldsFilename == LinksHold(Whole)

\* a cell was rewritten whose link goes to a note that planning renamed
C10_Witness ==
    \E r \in rewriteLog :
        /\ RewrittenCell(r).type = "markdown"
        /\ \E k \in 1..Len(LinkTargets(RewrittenCell(r).data, 2)) :
              LET target == LinkTargets(RewrittenCell(r).data, 2)[k]
              IN  /\ target \in DOMAIN newNotePathRecord
                  /\ FinalFilename(target) = <<"N", " ", "2", ".", "m", "d">>
                  /\ LinkContents(r.out, 1)[k] = <<"N", " ", "2", ".", "m", "d">>

\* the targets of the note links of a cell of a note that the ExportPlan
\* does not hold, in order; none for a cell that is not markdown
AbsentTargets(cell) ==
    IF cell.type # "markdown" THEN <<>>
    ELSE SelectSeq(LinkTargets(cell.data, 2),
                   LAMBDA u : u \notin DOMAIN newNotePathRecord)

RECURSIVE AbsentTargetsUpTo(_, _)
AbsentTargetsUpTo(cells, n) ==
    IF n = 0 THEN <<>>
    ELSE AbsentTargetsUpTo(cells, n - 1) \o AbsentTargets(cells[n])

\* the BrokenLink entries due for task t: one per link occurrence with an
\* absent target in the cells rewritten so far, naming the note of the task
DueBrokenLinks(t) ==
    LET note == TaskNote(t)
        targets == AbsentTargetsUpTo(note.cells, tasks[t].ci - 1)
    IN  [k \in 1..Len(targets) |->
            [sourceNoteTitle |-> note.title, sourceNoteId |-> note.uuid,
             targetNoteId |-> targets[k]]]

\* C11: a link whose target is not in the ExportPlan is rewritten to a local
\* link that holds the literal target id, and every such occurrence appends
\* exactly one BrokenLink entry naming the note being rewritten; a link whose
\* target is in the ExportPlan appends none.
C11_BrokenLinkPerOccurrence ==
    /\ \A t \in 1..Len(tasks) :
          SelectSeq(brokenLinks, LAMBDA b : b.sourceNoteId = tasks[t].uuid)
              = DueBrokenLinks(t)
    /\ \A b \in Range(brokenLinks) :
          \E t \in 1..Len(tasks) : b.sourceNoteId = tasks[t].uuid
    /\ \A r \in rewriteLog :
          RewrittenCell(r).type = "markdown" =>
              LET targets == LinkTargets(RewrittenCell(r).data, 2)
                  contents == LinkContents(r.out, 1)
              IN  /\ Len(contents) = Len(targets)
                  /\ \A k \in 1..Len(targets) :
                        targets[k] \notin DOMAIN newNotePathRecord =>
                            contents[k] = <<targets[k]>>

\* the export is over; a note linked one absent target twice in a cell that
\* also links a planned note, and two entries were reported for it
C11_Witness ==
    /\ phase = "done"
    /\ \E t \in 1..Len(tasks) :
          /\ Len(DueBrokenLinks(t)) = 2
          /\ DueBrokenLinks(t)[1] = DueBrokenLinks(t)[2]
          /\ \E c \in 1..Len(TaskNote(t).cells) :
                \E u \in Range(LinkTargets(TaskNote(t).cells[c].data, 2)) :
                    u \in DOMAIN newNotePathRecord
          /\ reported = DueBrokenLinks(t)

\* C12: when <outputPath>/quiver exists already, the export fails with an
\* error before any ExportPlan entry is made and before any directory or
\* file is written, and the CLI ends with a status that is not zero.
C12_PriorExportRefused ==
    outputState = "export" =>
        /\ phase \in {"check", "failed"}
        /\ phase = "failed" => error = "exists"
        /\ planLog = <<>> /\ DOMAIN newNotePathRecord = {}
        /\ dirs = {} /\ DOMAIN files = {}
        /\ exitCode \in {-1, 1}
        /\ phase = "failed" \/ exitCode = -1

\* the CLI has ended with status 1 on an output path with a prior export
C12_Witness ==
    /\ outputState = "export"
    /\ phase = "failed"
    /\ exitCode = 1

\* the calls of the walk for notebooks on disk, all ancestors on disk, that
\* hold no notes and have declared children
ParentOnlyCalls ==
    {call \in Range(MetaCalls(library)) :
        /\ ~Absent(call)
        /\ library.notebooks[NotebookIndex(library, call.uuid)].notes = <<>>
        /\ \E child \in Range(MetaCalls(library)) :
              child.parents = Append(call.parents, call.uuid)}

\* C13: a notebook of the meta hierarchy without notes but with declared
\* children is exported as a parent directory: after the export its
\* directory exists at its hierarchical path, whether or not a descendant
\* holds notes.
C13_ParentDirectoryExists ==
    phase = "done" =>
        \A call \in ParentOnlyCalls : WalkedPath(library, call) \in dirs

\* the notebooks on disk that the walk does not reach
Orphans ==
    {i \in 1..Len(library.notebooks) :
        ~(\E call \in Range(MetaCalls(library)) :
             call.uuid = library.notebooks[i].uuid /\ ~Absent(call))}

\* outputRoot/normalize(name)
RootLevelPath(i) ==
    PathJoin(outputQuiverPath, normalizePath(library.notebooks[i].name))

IsPrefix(p, q) == Len(p) <= Len(q) /\ SubSeq(q, 1, Len(p)) = p

\* C14: every orphan notebook with at least one note is exported with its
\* notes at outputRoot/normalize(name): once planning is over each of its
\* notes has an ExportPlan entry in that directory, and after the export the
\* markdown file of the note is at the planned path; an orphan notebook
\* without notes gets no ExportPlan entry, and no directory exists for it
\* (none at its path that is not the directory of a planned note).
C14_OrphansAtRootLevel ==
    \A i \in Orphans :
        LET notes == library.notebooks[i].notes
            es == NotebookEntries(i)
        IN  IF notes = <<>>
            THEN /\ es = <<>>
                 /\ RootLevelPath(i) \in dirs =>
                       \E e \in Range(planLog) : IsPrefix(RootLevelPath(i), e.path)
            ELSE /\ phase \in {"write", "done"} =>
                       /\ Len(es) = Len(notes)
                       /\ \A k \in 1..Len(es) :
                             /\ es[k].uuid = notes[k].uuid
                             /\ Dirname(es[k].path) = RootLevelPath(i)
                             /\ RootLevelPath(i) \in dirs
                 /\ phase = "done" =>
                       \A k \in 1..Len(es) :
                          /\ es[k].path \in DOMAIN files
                          /\ files[es[k].path] =
                                [kind |-> "markdown", nb |-> i, note |-> k, ri |-> 0]

\* C15: for a resource file name of exactly 32 upper-case hexadecimal
\* characters without extension, replaceResourceName in file-name mode
\* returns the name with exactly .png appended, and applied to that result
\* it returns it unchanged.
C15_HexNameGetsPngOnce ==
    (nameOut.called /\ nameIn.name = <<Hex32>>) =>
        /\ nameOut.once = nameIn.name \o <<".png">>
        /\ nameOut.twice = nameOut.once

\* the two calls were made on a 32-character name, png among the extensions
\* to replace
C15_Witness ==
    /\ nameOut.called
    /\ nameIn.name = <<Hex32>>
    /\ nameIn.exts = {".png"}
    /\ nameOut.twice = <<Hex32, ".png">>

\* C16: newDistinctNoteName fails only after 100 attempts: it returns
\* whenever one of the names with the suffixes index .. index + 99 is not in
\* currentNames; started at 2 it returns for the 101st note of a title.
C16_HundredAttempts ==
    resolveOut.called =>
        ((\E n \in resolveIn.index..(resolveIn.index + 99) :
             ~Includes(resolveIn.currentNames, Suffixed(resolveIn.noteName, n)))
         => ~resolveOut.threw)

\* the places of the meta tree below a node: the child indices on the way
\* down to each of its descendants
RECURSIVE Positions(_)
Positions(node) ==
    UNION { {<<i>>} \cup {<<i>> \o q : q \in Positions(node.children[i])}
            : i \in 1..Len(node.children) }

RECURSIVE NodeAt(_, _)
NodeAt(node, pos) ==
    IF pos = <<>> THEN node ELSE NodeAt(node.children[Head(pos)], Tail(pos))

\* pos comes first: it is on the way down to other, or it turns to an
\* earlier sibling where the two part
ComesBefore(pos, other) ==
    \E i \in 1..Len(other) :
        /\ \A j \in 1..(i - 1) : j <= Len(pos) /\ pos[j] = other[j]
        /\ (i > Len(pos) \/ pos[i] < other[i])

VisitOf(meta, pos) ==
    Cardinality({q \in Positions(meta) : ComesBefore(q, pos)}) + 1

UpFrom(pos) == SubSeq(pos, 1, Len(pos) - 1)

\* C17: the walk visits every node below the meta root once, a node before
\* its children and siblings in declared order; the ancestor list of a visit
\* is the parent's list followed by the parent's id, the empty list for the
\* children of the root; and the array handed to a visit still holds at the
\* end of the walk what it held at the visit.
C17_PreOrderWithAncestors ==
    LET walk == MetaWalk(library)
        calls == walk.calls
        meta == library.meta
    IN  /\ Len(calls) = Cardinality(Positions(meta))
        /\ \A pos \in Positions(meta) :
              LET k == VisitOf(meta, pos)
              IN  /\ k \in 1..Len(calls)
                  /\ calls[k].uuid = NodeAt(meta, pos).uuid
                  /\ MetaCalls(library)[k].parents = calls[k].parents
                  /\ IF Len(pos) = 1
                     THEN calls[k].parents = <<>>
                     ELSE LET up == VisitOf(meta, UpFrom(pos))
                          IN  /\ up < k
                              /\ calls[k].parents =
                                    calls[up].parents \o <<calls[up].uuid>>
        /\ \A k \in 1..Len(calls) : walk.heap[calls[k].ref] = calls[k].parents

\* the walk is over, two siblings below a notebook were handed one array,
\* and both were passed on to the planner
C17_Witness ==
    LET calls == MetaWalk(library).calls
    IN  /\ walkPos > Len(calls)
        /\ \E j, k \in 1..Len(calls) :
              /\ j < k
              /\ calls[j].ref = calls[k].ref
              /\ calls[k].parents # <<>>
              /\ \E a, b \in 1..Len(callbackLog) :
                    /\ a < b
                    /\ callbackLog[a].uuid = calls[j].uuid
                    /\ callbackLog[b].uuid = calls[k].uuid

\* the ids on the way from below the meta root down to the parent of pos
AncestorsAt(meta, pos) ==
    [d \in 1..(Len(pos) - 1) |-> NodeAt(meta, SubSeq(pos, 1, d)).uuid]

\* the segments the display name of a notebook gives once normalized
NameSegments(uuid) ==
    LET named == CHOOSE i \in 1..Len(library.notebooks) : library.notebooks[i].uuid = uuid
    IN  SelectNonEmpty(Split(normalizePath(library.notebooks[named].name), "/"))

RECURSIVE SegmentsOf(_)
SegmentsOf(uuids) ==
    IF uuids = <<>> THEN <<>>
    ELSE NameSegments(Head(uuids)) \o SegmentsOf(Tail(uuids))

\* the first place of the tree at which the notebook is visited with all its
\* ancestors on disk; <<>> when there is none
PlaceOf(uuid) ==
    LET places == {pos \in Positions(library.meta) :
                      /\ NodeAt(library.meta, pos).uuid = uuid
                      /\ \A a \in Range(AncestorsAt(library.meta, pos)) : OnDisk(a)}
    IN  IF places = {} THEN <<>>
        ELSE CHOOSE pos \in places :
                 \A q \in places : q = pos \/ ComesBefore(pos, q)

\* C18: the planned path of every note of a walked notebook is the output
\* root, the normalized name of every ancestor from the topmost down to the
\* parent, with or without notes of its own, the notebook's normalized name
\* and the note's file name; the meta root gives no segment.
C18_PathFollowsAncestors ==
    \A n \in 1..Len(planLog) :
        LET e == planLog[n]
            uuid == library.notebooks[e.nb].uuid
            pos == PlaceOf(uuid)
        IN  uuid \in notebooksInMeta =>
                /\ pos # <<>>
                /\ e.path = outputQuiverPath
                             \o SegmentsOf(AncestorsAt(library.meta, pos))
                             \o NameSegments(uuid)
                             \o <<e.name \o MdExt>>
                /\ newNotePathRecord[e.uuid] = e.path

\* planning is over and a note was planned two levels down, below a parent
\* without notes whose name needed trimming
C18_Witness ==
    /\ PlanningOver
    /\ \E n \in 1..Len(planLog) :
          LET e == planLog[n]
              uuid == library.notebooks[e.nb].uuid
              pos == PlaceOf(uuid)
          IN  /\ uuid \in notebooksInMeta
              /\ Len(pos) = 3
              /\ \E a \in Range(AncestorsAt(library.meta, pos)) :
                    \E i \in 1..Len(library.notebooks) :
                        /\ library.notebooks[i].uuid = a
                        /\ library.notebooks[i].notes = <<>>
                        /\ normalizePath(library.notebooks[i].name) # library.notebooks[i].name
              /\ Len(e.path) = 5
              /\ newNotePathRecord[e.uuid] = e.path

\* a reference begins at s: the tag and at least one character of a name
IsReference(text, s) ==
    s + 1 <= Len(text) /\ text[s] = ResTag /\ text[s + 1] \notin BaseExcluded

\* where the name of the reference at s ends: before the first terminator
\* after its first character, at the end of the text without one
NameEnd(text, s) ==
    LET stops == {j \in (s + 2)..Len(text) : text[j] \in Terminators}
    IN  IF stops = {} THEN Len(text) ELSE Least(stops) - 1

RefName(text, s) == SubSeq(text, s + 1, NameEnd(text, s))

\* the references of a text from position from on, read from left to
\* right, each with its terminator
RECURSIVE References(_, _)
References(text, from) ==
    IF from > Len(text) THEN {}
    ELSE IF IsReference(text, from)
    THEN {from} \cup References(text, NameEnd(text, from) + 2)
    ELSE References(text, from + 1)

\* the file name a reference is to carry after the step
FinalNameOf(name, map) ==
    IF name \in DOMAIN map THEN map[name]
    ELSE IF name \o <<".png">> \in DOMAIN map THEN map[name \o <<".png">>]
    ELSE name

\* C19: the final-name step puts, for every reference _resources/<name>
\* followed by a terminator or by the end of the text, the map's value for
\* <name>, failing that the map's value for <name>.png, failing that <name>
\* itself, between the tag and the same terminator, and changes nothing
\* else: no reference is dropped or blanked.
C19_FinalNameOrUntouched ==
    finalOut.called =>
        LET text == finalIn.data
            refs == References(text, 1)
            piece(p) ==
                IF p \in refs
                THEN <<ResTag>> \o FinalNameOf(RefName(text, p), finalIn.map)
                ELSE IF \E s \in refs : s < p /\ p <= NameEnd(text, s)
                THEN <<>>
                ELSE <<text[p]>>
        IN  /\ finalOut.data = Flatten([p \in 1..Len(text) |-> piece(p)])
            /\ \A s \in refs :
                  (/\ RefName(text, s) \notin DOMAIN finalIn.map
                   /\ RefName(text, s) \o <<".png">> \notin DOMAIN finalIn.map)
                  => \E q \in 1..Len(finalOut.data) :
                         SubSeq(finalOut.data, q, q + NameEnd(text, s) - s)
                             = SubSeq(text, s, NameEnd(text, s))

\* the step rewrote a reference that the map holds as it stands
C19_Witness ==
    /\ finalOut.called
    /\ finalIn.data = <<ResTag, "a", ".png", ")">>
    /\ finalIn.map = (<<"a", ".png">> :> <<"a", "_", "1", ".png">>)
    /\ finalOut.data = <<ResTag, "a", "_", "1", ".png", ")">>

\* the resources of the note of task t that copyFile has finished
CopiedOf(t) == {c.ri : c \in {d \in copyLog : d.task = t}}

\* C20: the resources of a note are named, copied and put in the resource
\* map one after the other in declared order, and all of them before the
\* first cell of the note is rewritten: while a resource is in work those
\* copied are the ones before it, and no cell is rewritten yet; once the
\* markdown is begun every resource is copied, and every rewriting of a cell
\* reads a map that has each of the note's resource names as a key.
C20_ResourcesBeforeCells ==
    phase \in {"write", "done", "failed"} =>
        \A t \in 1..Len(tasks) :
            LET note == TaskNote(t)
                rewritten == {e \in rewriteLog : e.task = t}
            IN  /\ \A c \in copyLog :
                      c.task = t => /\ c.name = note.files[c.ri]
                                    /\ c.finalName # <<>>
                                    /\ c.name \in DOMAIN currentNoteResourceMap
                /\ IF tasks[t].pc \in {"exists", "copy"}
                   THEN /\ CopiedOf(t) = 1..(tasks[t].ri - 1)
                        /\ tasks[t].ri \in 1..Len(note.files)
                        /\ rewritten = {}
                   ELSE /\ CopiedOf(t) = 1..Len(note.files)
                        /\ \A e \in rewritten :
                              \A ri \in 1..Len(note.files) :
                                  note.files[ri] \in DOMAIN e.map

\* a cell of a note with two resources has been rewritten
C20_Witness ==
    /\ phase = "write"
    /\ \E t \in 1..Len(tasks) :
          /\ Len(TaskNote(t).files) = 2
          /\ \E e \in rewriteLog : e.task = t /\ e.cell = 1
          /\ CopiedOf(t) = {1, 2}

\* every cell rewritten so far reads as it would with the plan as it is now
LinksAsPlanned ==
    \A e \in rewriteLog :
        LET cell == TaskNote(e.task).cells[e.cell]
        IN  cell.type = "markdown" =>
                e.out = transformQuiverResourceAndNoteLink(cell.data, needReplaceExtNames,
                            e.map, newNotePathRecord).out

\* C21: the plan is complete when the first note is written and no step of
\* the write phase, in any interleaving of the note writes, changes
\* newNotePathRecord: every link was resolved against the plan as it stands.
C21_PlanFixedWhileWriting ==
    /\ [](phase \in {"write", "done"} => (PlanningOver /\ LinksAsPlanned))
    /\ [][(phase \in {"write", "done"}) => (newNotePathRecord' = newNotePathRecord)]_vars

\* two notes are written, one is done and the other has a cell rewritten
\* with a link that the plan resolves
C21_Witness ==
    /\ phase = "write"
    /\ DOMAIN newNotePathRecord # {}
    /\ \E t, u \in 1..Len(tasks) :
          /\ t # u
          /\ tasks[t].pc = "done"
          /\ \E e \in rewriteLog :
                /\ e.task = u
                /\ TaskNote(t).uuid \in Range(LinkTargets(TaskNote(u).cells[e.cell].data, 2))

\* the BrokenLink entries of the whole note of task t
AllBrokenLinks(t) ==
    LET note == TaskNote(t)
        targets == AbsentTargetsUpTo(note.cells, Len(note.cells))
    IN  [k \in 1..Len(targets) |->
            [sourceNoteTitle |-> note.title, sourceNoteId |-> note.uuid,
             targetNoteId |-> targets[k]]]

\* C22: brokenLinks only grows at its end; the report is made when every
\* note write has finished, whatever their interleaving, and then holds, for
\* every written note, one entry per link occurrence whose target is not
\* planned, and nothing else.
C22_BrokenLinksCompleteAtReport ==
    /\ [][IsPrefix(brokenLinks, brokenLinks')]_vars
    /\ [](phase = "done" =>
            /\ \A t \in 1..Len(tasks) : tasks[t].pc = "done"
            /\ reported = brokenLinks
            /\ \A t \in 1..Len(tasks) :
                  SelectSeq(reported, LAMBDA b : b.sourceNoteId = tasks[t].uuid)
                      = AllBrokenLinks(t)
            /\ \A b \in Range(reported) :
                  \E t \in 1..Len(tasks) : b.sourceNoteId = tasks[t].uuid)

\* the report was made after three note writes and holds several entries
C22_Witness ==
    /\ phase = "done"
    /\ Len(reported) >= 2
    /\ Len(tasks) >= 3
    /\ \E t \in 1..Len(tasks) : Len(AllBrokenLinks(t)) >= 2

\* C23: whatever the interleaving of the writeNote calls, stop() is called
\* on the spinner at most once in a run: the call that stops it clears it,
\* and no later end of a writeNote calls stop() again.
C23_SpinnerStoppedOnce ==
    /\ [](spinnerStops <= 1 /\ (spinnerStops = 1 => ~spinner))
    /\ [][(spinnerStops' # spinnerStops) =>
            (spinner /\ ~spinner' /\ spinnerStops' = spinnerStops + 1)]_vars

\* two notes are written to the end and the spinner was stopped by the
\* first of them
C23_Witness ==
    /\ spinnerStops = 1
    /\ ~spinner
    /\ Cardinality({t \in 1..Len(tasks) : tasks[t].pc = "done"}) >= 2
    /\ barTicks >= 2

\* C24: when planning fails on a duplicate note id or on the exhaustion of
\* the renaming, the ExportPlan is as it was before the run, that is empty:
\* the failed attempt leaves no entry that a second call would run into.
C24_FailedPlanningLeavesNoEntries ==
    (phase = "failed" /\ error \in {"duplicate", "rename"}) =>
        newNotePathRecord = <<>>

\* C25: for a text that holds one or more references (_resources/<name>),
\* also several on one line, replaceResourceName in content mode returns the
\* text with every <name> replaced by what replaceResourceName in file-name
\* mode returns for it.
C25_ContentModeAsFileMode ==
    contentOut.called =>
        contentOut.data =
            ContentText([k \in 1..Len(contentIn.names) |->
                            replaceResourceName(contentIn.names[k], TRUE, contentIn.exts)],
                        contentIn.between)

\* the plan of the notebook read, had its notes come in readdir order
PlanInDirOrder ==
    PlanNotebook(1, MkNotebook("A", <<"p">>, notebookDir),
                 PathJoin(outputQuiverPath, <<"p">>), <<>>).record

\* C26: the ExportPlan is a function of the library on disk: whatever the
\* order in which the concurrent readNote calls of readNoteBook complete,
\* the notes of one title get the unsuffixed name and the suffixes 2, 3, ...
\* as they do when the reads complete in readdir order.
C26_PlanIndependentOfReadOrder ==
    (phase = "plan" /\ walkPos > Len(MetaCalls(library))) =>
        newNotePathRecord = PlanInDirOrder

\* the names that follow the token tag in a text, each up to the closing
\* parenthesis, in order
RECURSIVE RefNames(_, _, _)
RefNames(text, tags, i) ==
    IF i > Len(text) THEN <<>>
    ELSE IF text[i] \in tags
    THEN LET closes == {x \in (i + 1)..Len(text) : text[x] = ")"}
             j == IF closes = {} THEN Len(text) + 1 ELSE Least(closes)
         IN  <<SubSeq(text, i + 1, j - 1)>> \o RefNames(text, tags, j + 1)
    ELSE RefNames(text, tags, i + 1)

\* C27: in a rewritten cell every reference that named a resource file of
\* the note by its original name names the file name under which that very
\* file was copied, also when the normalization of names or a collision
\* changed it.
C27_ReferenceNamesOwnCopy ==
    \A r \in rewriteLog :
        RewrittenCell(r).type = "markdown" =>
            LET note == TaskNote(r.task)
                before == RefNames(RewrittenCell(r).data, {ImgUrl, FileUrl}, 1)
                after == RefNames(r.out, {ResTag}, 1)
            IN  /\ Len(after) = Len(before)
                /\ \A k \in 1..Len(before) :
                      \A ri \in 1..Len(note.files) :
                          note.files[ri] = before[k] =>
                              \E c \in copyLog :
                                  /\ c.task = r.task
                                  /\ c.ri = ri
                                  /\ after[k] = c.finalName

\* a note link [label](prefix uuid) begins at i: the index of its closing
\* parenthesis, 0 when none does
NoteLinkEnd(text, i) ==
    IF i > Len(text) \/ text[i] # "[" THEN 0
    ELSE LET closes == {k \in (i + 1)..Len(text) : text[k] = "]"}
         IN  IF closes = {} THEN 0
             ELSE LET k == Least(closes)
                  IN  IF /\ k + 4 <= Len(text)
                         /\ text[k + 1] = "("
                         /\ text[k + 2] \in {NoteUrl, NotesUrl}
                         /\ text[k + 3] \in UuidTokens
                         /\ text[k + 4] = ")"
                      THEN k + 4 ELSE 0

\* where what follows a resource tag at i ends: before the next closing
\* parenthesis
ReferenceEnd(text, i) ==
    LET closes == {x \in (i + 1)..Len(text) : text[x] = ")"}
    IN  IF closes = {} THEN Len(text) ELSE Least(closes) - 1

\* a cell as given, without its resource references and its note links
RECURSIVE OutsideBefore(_, _)
OutsideBefore(text, i) ==
    IF i > Len(text) THEN <<>>
    ELSE IF text[i] \in {ImgUrl, FileUrl, ResTag}
    THEN OutsideBefore(text, ReferenceEnd(text, i) + 1)
    ELSE IF NoteLinkEnd(text, i) # 0
    THEN OutsideBefore(text, NoteLinkEnd(text, i) + 1)
    ELSE <<text[i]>> \o OutsideBefore(text, i + 1)

\* a rewritten cell without its resource references and its local links,
\* each link with the blank written before it
RECURSIVE OutsideAfter(_, _)
OutsideAfter(out, i) ==
    IF i > Len(out) THEN <<>>
    ELSE IF out[i] = ResTag
    THEN OutsideAfter(out, ReferenceEnd(out, i) + 1)
    ELSE IF out[i] = " " /\ i + 1 <= Len(out) /\ out[i + 1] = "[["
    THEN LET ends == {x \in (i + 2)..Len(out) : out[x] = "]]"}
         IN  OutsideAfter(out, (IF ends = {} THEN Len(out) ELSE Least(ends)) + 1)
    ELSE <<out[i]>> \o OutsideAfter(out, i + 1)

\* C28: the rewrite of a cell changes its resource references and its note
\* links alone: what stands outside them, also between two references or
\* two bracketed links of one line, is in the rewritten text, unchanged and
\* in the same order.
C28_OutsideUnchanged ==
    \A r \in rewriteLog :
        RewrittenCell(r).type = "markdown" =>
            OutsideAfter(r.out, 1) = OutsideBefore(RewrittenCell(r).data, 1)

\* C29: the step that follows the completion of the plan is the start of
\* the writing, which passes every note of the ExportPlan to writeNote, once
\* and with its planned path, and no other note; the progress bar ticks
\* once for each note written, and when the export ends it has ticked
\* noteCount times.
C29_WalksAgree ==
    /\ [](phase \in {"write", "done"} =>
            /\ \A uuid \in DOMAIN newNotePathRecord :
                  /\ Cardinality({t \in 1..Len(tasks) : tasks[t].uuid = uuid}) = 1
                  /\ \A t \in 1..Len(tasks) :
                        tasks[t].uuid = uuid =>
                            /\ tasks[t].path = newNotePathRecord[uuid]
                            /\ TaskNote(t).uuid = uuid
            /\ \A t \in 1..Len(tasks) : tasks[t].uuid \in DOMAIN newNotePathRecord
            /\ noteCount = Cardinality(DOMAIN newNotePathRecord)
            /\ barTicks <= noteCount
            /\ (phase = "done" => barTicks = noteCount))
    /\ [][(phase = "plan" /\ PlanningOver) =>
            (phase' = "write" /\ Len(tasks') = Cardinality(DOMAIN newNotePathRecord))]_vars
    /\ [][(phase = "write" /\ phase' = "done") =>
            (\A t \in 1..Len(tasks) : tasks[t].pc = "done")]_vars

\* the export is over: a walked notebook and an orphan notebook were
\* written, the bar ticked for each of their notes
C29_Witness ==
    /\ phase = "done"
    /\ barTicks = noteCount
    /\ noteCount >= 2
    /\ \E t, u \in 1..Len(tasks) :
          /\ library.notebooks[tasks[t].nb].uuid \in notebooksInMeta
          /\ library.notebooks[tasks[u].nb].uuid \notin notebooksInMeta

\* a note link to uuid as a cell holds it, and the local link the rewrite
\* puts in its place
NoteLinkTo(uuid) == <<"[", "x", "]", "(", NoteUrl, uuid, ")">>
EmittedLink(uuid) == GlobalReplace("link", NoteLinkTo(uuid), 1, [record |-> newNotePathRecord]).out

\* C30: the links to two distinct notes of the ExportPlan are rewritten to
\* two different local links, also when the two notes are in different
\* notebooks.
C30_LinksTellNotesApart ==
    \A u, v \in DOMAIN newNotePathRecord \cap UuidTokens :
        u # v => EmittedLink(u) # EmittedLink(v)

=============================================================================
